---------------------------- MODULE Spec2Model ----------------------------
(***************************************************************************)
(* A model of Purrify's scan / classify / deduplicate / clean pipeline:    *)
(*   - SystemScanner (src/src/purrify/scanners/system_scanner.py)          *)
(*   - PurrifyEngine.clean_system and CacheCleaner                         *)
(*     (src/src/purrify/core/engine.py, cleaners/cache_cleaner.py)         *)
(*   - FileUtils (src/src/purrify_core/utils/file_utils.py)                *)
(*                                                                         *)
(* Strings that the code searches (paths, whitelist / blacklist entries,   *)
(* risk patterns, globs) are sequences of tokens: "/" is a token of its    *)
(* own and every name is cut so that each pattern the code looks for       *)
(* begins and ends on a token boundary of every path of the catalogue;     *)
(* `x in s` is then "x is a contiguous subsequence of s".                  *)
(***************************************************************************)
EXTENDS Integers, Sequences, FiniteSets, TLC

VARIABLES
    \* ---- SystemScanner ------------------------------------------------
    fs,                \* the files on disk, in directory-listing order
    config,            \* the Config object shared by the components
    scan_opts,         \* the arguments of the running scan_system call
    pc,                \* position of the scanner inside scan_system
    scanned_files,     \* SystemScanner.scanned_files
    scan_errors,       \* SystemScanner.scan_errors
    duplicate_groups,  \* SystemScanner.duplicate_groups
    photo_analysis,    \* SystemScanner.photo_analysis
    large_files,       \* SystemScanner.large_files (indices of records)
    old_files,         \* SystemScanner.old_files (indices of records)
    scan_results,      \* the dictionary scan_system returns
    raised,            \* the errors that occurred during the running scan
    fault,             \* the I/O error the disk holds ready for a traversal
    elapsed,           \* seconds since the running scan started
    \* ---- safety policy evaluations -----------------------------------
    pol,               \* the last safety evaluation and what it returned
    \* ---- FileUtils.safe_delete_file / safe_delete_directory ----------
    disk,              \* location -> content (NoFile when absent)
    del,               \* the running (or last) safe_delete_* call
    backed,            \* the backup copies made: original and backup location
    \* ---- PurrifyEngine.clean_system ----------------------------------
    backup_root,       \* does ./backups exist
    clean_disk,        \* the files a cleanup could remove
    last_clean_result,
    operation_history,
    clean_call,        \* the last clean_system call and what it returned
    \* ---- PurrifyEngine: scan_system, clean_system, optimize_system ----
    last_scan_result,
    last_optimization_result,
    api_call,          \* the last call of the engine and how it ended
    held,              \* the ScanResult objects the callers hold, latest last
    call_limit,        \* how many completed operations a run is followed for
    \* ---- two scan_system calls on one scanner, in one event loop ------
    ready,             \* the event loop's queue of runnable steps, first in first out
    calls              \* per call: its options, its unfinished units, its report

scanVars == <<fs, config, scan_opts, pc, scanned_files, scan_errors,
              duplicate_groups, photo_analysis, large_files, old_files,
              scan_results, raised, fault, elapsed>>
polVars  == <<pol>>
delVars  == <<disk, del, backed>>
engVars  == <<backup_root, clean_disk, last_clean_result, operation_history,
              clean_call, last_scan_result, last_optimization_result, api_call,
              held, call_limit>>
ovlVars  == <<ready, calls>>
vars     == <<scanVars, polVars, delVars, engVars, ovlVars>>

-----------------------------------------------------------------------------
(* Bounds of the model *)

\* at most this many files are on disk during a scan
MaxFiles == 3

\* the distinct file contents on the disk FileUtils deletes from
MaxContent == 2

\* clean_system calls recorded in PurrifyEngine.operation_history
MaxOps == 2

\* completed operations of the engine a run of its three calls is followed for
MaxCalls == 1

-----------------------------------------------------------------------------
(* Sequences and strings *)

Range(s) == {s[i] : i \in 1..Len(s)}

RECURSIVE SumSeq(_)
SumSeq(s) == IF s = <<>> THEN 0 ELSE Head(s) + SumSeq(Tail(s))

RECURSIVE MinSeq(_)
MinSeq(s) ==
    IF Len(s) = 1 THEN Head(s)
    ELSE LET m == MinSeq(Tail(s)) IN IF Head(s) < m THEN Head(s) ELSE m

RECURSIVE SortedSeq(_)
\* the numbers of S in increasing order
SortedSeq(S) ==
    IF S = {} THEN <<>>
    ELSE LET m == CHOOSE x \in S : \A y \in S : x <= y
         IN <<m>> \o SortedSeq(S \ {m})

\* Python's `sub in s` on strings
Contains(sub, s) ==
    \E i \in 1..(Len(s) - Len(sub) + 1) : SubSeq(s, i, i + Len(sub) - 1) = sub

\* str.lower(), token by token
LowerTok(t) ==
    CASE t = "Users"     -> "users"
      [] t = "Downloads" -> "downloads"
      [] t = "Documents" -> "documents"
      [] t = "Library"   -> "library"
      [] t = "Caches"    -> "caches"
      [] t = "Safari"    -> "safari"
      [] t = "System"    -> "system"
      [] t = "Applications" -> "applications"
      [] t = "Desktop"   -> "desktop"
      [] t = "Preferences" -> "preferences"
      [] t = "Application Support" -> "application support"
      [] t = "Spotlight-V100" -> "spotlight-v100"
      [] OTHER           -> t

Lower(s) == [i \in 1..Len(s) |-> LowerTok(s[i])]

\* str.count("/")
CountSep(s) == Cardinality({i \in 1..Len(s) : s[i] = "/"})

\* the tokens of the last path component (Path.name)
RECURSIVE Name(_)
Name(p) ==
    IF p = <<>> \/ p[Len(p)] = "/" THEN <<>>
    ELSE Append(Name(SubSeq(p, 1, Len(p) - 1)), p[Len(p)])

\* the path without its last component and the separator before it
Parent(p) == SubSeq(p, 1, Len(p) - Len(Name(p)) - 1)

\* Path.suffix: the last "." of the name and what follows it
SuffixOf(n) ==
    IF Len(n) < 2 THEN <<>>
    ELSE IF \E i \in 2..Len(n) : n[i] = "."
         THEN LET k == CHOOSE i \in 2..Len(n) :
                          n[i] = "." /\ \A j \in (i+1)..Len(n) : n[j] # "."
              IN IF k = Len(n) THEN <<>> ELSE SubSeq(n, k, Len(n))
         ELSE <<>>

Suffix(p) == Lower(SuffixOf(Name(p)))

\* len(Path.parts) of an absolute path: the root "/" and one per component
Parts(p) == 1 + Cardinality({i \in 2..Len(p) : p[i] # "/" /\ p[i-1] = "/"})

\* fnmatch of one component: "*" matches any run of tokens
RECURSIVE GlobMatch(_, _)
GlobMatch(pat, s) ==
    IF pat = <<>> THEN s = <<>>
    ELSE IF Head(pat) = "*"
         THEN \E k \in 0..Len(s) : GlobMatch(Tail(pat), SubSeq(s, k + 1, Len(s)))
         ELSE s # <<>> /\ Head(s) = Head(pat) /\ GlobMatch(Tail(pat), Tail(s))

\* PurePath.match of a relative pattern: the pattern's components are matched
\* against the path's last components, from the right
RECURSIVE PathMatch(_, _)
PathMatch(pat, p) ==
    IF pat = <<>> THEN TRUE
    ELSE IF p = <<>> \/ Name(p) = <<>> THEN FALSE
    ELSE /\ GlobMatch(Name(pat), Name(p))
         /\ \/ Len(Name(pat)) = Len(pat)
            \/ PathMatch(Parent(pat), Parent(p))

\* is path p below directory root
IsUnder(root, p) ==
    /\ Len(p) > Len(root) + 1
    /\ SubSeq(p, 1, Len(root)) = root
    /\ p[Len(root) + 1] = "/"

-----------------------------------------------------------------------------
(* The files a scan can meet.  A file's content is an identifier; its size  *)
(* and digest are functions of the content, and distinct contents have      *)
(* distinct MD5 digests (no collision among the modelled contents).         *)

Home == <<"/", "Users", "/", "u">>

Downloads == Home \o <<"/", "Downloads">>
Documents == Home \o <<"/", "Documents">>
UserCaches == Home \o <<"/", "Library", "/", "Caches">>
SafariCache == UserCaches \o <<"/", "com", ".", "apple", ".", "Safari">>
TmpDir == <<"/", "tmp">>
PrivateVarTmp == <<"/", "private", "/", "var", "/", "tmp">>

ContentSize(c) ==
    CASE c = 0 -> 0
      [] c = 1 -> 5120
      [] c = 2 -> 5120
      [] c = 3 -> 2048
      [] c = 4 -> 512
      [] c = 5 -> 11534336

\* hashlib.md5 over the whole content
Md5(c) ==
    CASE c = 0 -> "d41d8"
      [] c = 1 -> "a1f03"
      [] c = 2 -> "7c2be"
      [] c = 3 -> "e09c4"
      [] c = 4 -> "3b5d5"
      [] c = 5 -> "f6a11"

\* age: hours since the last modification, readable: open() succeeds
Catalog == <<
    [path |-> Downloads \o <<"/", "a", ".", "dat">>,
     content |-> 1, age |-> 100, readable |-> TRUE],
    [path |-> Downloads \o <<"/", "b", ".", "dat">>,
     content |-> 1, age |-> 1, readable |-> TRUE],
    [path |-> Downloads \o <<"/", "c", ".", "jpg">>,
     content |-> 2, age |-> 3000, readable |-> TRUE],
    [path |-> Downloads \o <<"/", "big", ".", "mov">>,
     content |-> 5, age |-> 3000, readable |-> TRUE],
    [path |-> Documents \o <<"/", "keep", "/", "d", ".", "dat">>,
     content |-> 1, age |-> 100, readable |-> TRUE],
    [path |-> Documents \o <<"/", "settings", "/", "e", ".", "dat">>,
     content |-> 1, age |-> 100, readable |-> FALSE],
    [path |-> SafariCache \o <<"/", "f", ".", "cache">>,
     content |-> 3, age |-> 100, readable |-> TRUE],
    [path |-> TmpDir \o <<"/", "system", "/", "g", ".", "tmp">>,
     content |-> 3, age |-> 100, readable |-> TRUE],
    [path |-> TmpDir \o <<"/", "h", ".", "tmp">>,
     content |-> 4, age |-> 1, readable |-> TRUE],
    [path |-> TmpDir \o <<"/", "z", ".", "important">>,
     content |-> 0, age |-> 100, readable |-> TRUE],
    [path |-> PrivateVarTmp \o <<"/", "i", ".", "tmp">>,
     content |-> 3, age |-> 100, readable |-> TRUE],
    [path |-> SafariCache \o <<"/", "k", ".", "important">>,
     content |-> 3, age |-> 100, readable |-> TRUE],
    [path |-> Downloads \o <<"/", "empty", ".", "jpg">>,
     content |-> 0, age |-> 3000, readable |-> TRUE]
>>

FileIds == 1..Len(Catalog)

\* the top-level directory a file lies in, in the order the listing shows them
DirRank(f) ==
    LET p == Catalog[f].path IN
    CASE IsUnder(Downloads, p)     -> 1
      [] IsUnder(Documents, p)     -> 2
      [] IsUnder(UserCaches, p)    -> 3
      [] IsUnder(TmpDir, p)        -> 4
      [] IsUnder(PrivateVarTmp, p) -> 5

\* the disk: distinct files, directory by directory, any order inside one
Disks ==
    {d \in UNION {[1..k -> FileIds] : k \in 0..MaxFiles} :
        /\ \A i, j \in DOMAIN d : i < j =>
              /\ d[i] # d[j]
              /\ DirRank(d[i]) <= DirRank(d[j])}

-----------------------------------------------------------------------------
(* Config (src/src/purrify/core/config.py) *)

\* SecurityConfig / ScanningConfig / CleaningConfig defaults, with the
\* macOS additions of _apply_macos_settings
MacSettings ==
    [whitelist_paths |-> <<
         <<"/", "System", "/">>,
         <<"/", "Applications", "/">>,
         <<"/", "Users", "/", "*", "/", "Documents", "/">>,
         <<"/", "Users", "/", "*", "/", "Desktop", "/">>,
         <<"/", "Applications", "/">>,
         <<"/", "System", "/", "Applications", "/">>,
         <<"/", "Users", "/", "*", "/", "Library", "/", "Application Support", "/">>,
         <<"/", "Users", "/", "*", "/", "Library", "/", "Preferences", "/">> >>,
     blacklist_paths |-> <<
         <<"/", "System", "/", "Library", "/">>,
         <<"/", "Library", "/">>,
         <<"/", "bin", "/">>,
         <<"/", "sbin", "/">>,
         <<"/", "usr", "/", "bin", "/">>,
         <<"/", "usr", "/", "sbin", "/">>,
         <<"/", "System", "/", "Library", "/">>,
         <<"/", "Library", "/">>,
         <<"/", "private", "/">>,
         <<"/", ".", "Spotlight-V100", "/">>,
         <<"/", ".", "fseventsd", "/">> >>,
     exclude_patterns |-> <<
         <<"*", ".", "important">>,
         <<"backup", "/", "*">>,
         <<"*", ".", "backup">>,
         <<"*", ".", "bak">> >>,
     min_file_age_hours |-> 24]

\* a configuration file written by a user: protects ~/Documents/keep/,
\* forbids ~/Downloads/b.*, keeps the default age and exclusions
UserSettings ==
    [whitelist_paths |-> << <<"/", "Documents", "/", "keep", "/">> >>,
     blacklist_paths |-> << <<"/", "Downloads", "/", "b", ".">> >>,
     exclude_patterns |-> << <<"*", ".", "important">> >>,
     min_file_age_hours |-> 24]

\* The Config object: the settings it was loaded with (by name) and
\* scanning.quick_mode, the one field the components write
MacConfig  == [profile |-> "mac", quick_mode |-> FALSE]
UserConfig == [profile |-> "user", quick_mode |-> FALSE]

Configs == {MacConfig, UserConfig}

Settings(cfg) == IF cfg.profile = "mac" THEN MacSettings ELSE UserSettings

\* config.security.whitelist_paths, .blacklist_paths,
\* config.scanning.exclude_patterns, config.cleaning.min_file_age_hours
WhitelistPaths(cfg)  == Settings(cfg).whitelist_paths
BlacklistPaths(cfg)  == Settings(cfg).blacklist_paths
ExcludePatterns(cfg) == Settings(cfg).exclude_patterns
MinFileAgeHours(cfg) == Settings(cfg).min_file_age_hours

-----------------------------------------------------------------------------
(* Classifier and safety policy (system_scanner.py) *)

\* SystemScanner._get_file_type
GetFileType(p) ==
    LET e == Suffix(p) IN
    IF e \in {<<".", "log">>} THEN "log"
    ELSE IF e \in {<<".", "cache">>, <<".", "tmp">>, <<".", "temp">>} THEN "cache"
    ELSE IF e \in {<<".", "jpg">>, <<".", "jpeg">>, <<".", "png">>,
                   <<".", "gif">>, <<".", "bmp">>} THEN "image"
    ELSE IF e \in {<<".", "mp4">>, <<".", "avi">>, <<".", "mov">>,
                   <<".", "mkv">>} THEN "video"
    ELSE IF e \in {<<".", "mp3">>, <<".", "wav">>, <<".", "flac">>} THEN "audio"
    ELSE IF e \in {<<".", "zip">>, <<".", "rar">>, <<".", "7z">>,
                   <<".", "tar">>, <<".", "gz">>} THEN "archive"
    ELSE "other"

\* SystemScanner._is_safe_to_delete
IsSafeToDelete(cfg, p, category) ==
    IF \E w \in Range(WhitelistPaths(cfg)) : Contains(w, p)
    THEN FALSE
    ELSE IF \E b \in Range(BlacklistPaths(cfg)) : Contains(b, p)
    THEN FALSE
    ELSE IF \E pat \in Range(ExcludePatterns(cfg)) : PathMatch(pat, p)
    THEN FALSE
    ELSE IF category = "system_cache"
    THEN CountSep(p) > 2
    ELSE TRUE

HighRiskPatterns ==
    { <<"system">>, <<"library">>, <<"bin">>, <<"sbin">>,
      <<"usr", "/", "bin">>, <<"usr", "/", "sbin">>, <<"windows">>,
      <<"system32">>, <<"syswow64">>, <<"program files">> }

MediumRiskPatterns ==
    { <<"application support">>, <<"preferences">>, <<"settings">>,
      <<"appdata">>, <<"local">>, <<"roaming">> }

\* SystemScanner._get_risk_level
GetRiskLevel(p, category) ==
    IF \E pat \in HighRiskPatterns : Contains(pat, Lower(p)) THEN "high"
    ELSE IF \E pat \in MediumRiskPatterns : Contains(pat, Lower(p)) THEN "medium"
    ELSE "low"

\* FileUtils.is_safe_to_delete (purrify_core/utils/file_utils.py)
FileUtilsIsSafeToDelete(p, whitelist, blacklist) ==
    IF \E i \in DOMAIN blacklist : Contains(Lower(blacklist[i]), Lower(p))
    THEN FALSE
    ELSE IF \E i \in DOMAIN whitelist : Contains(Lower(whitelist[i]), Lower(p))
    THEN TRUE
    ELSE Len(whitelist) = 0

-----------------------------------------------------------------------------
(* PathCatalog: get_system_paths / get_browser_paths on macOS              *)
(* (src/src/purrify/utils/platform.py).  A root under which the disk holds  *)
(* no file does not exist, and _scan_directory returns at once for it.      *)

None == "<None>"

Lib(name) == Home \o <<"/", "Library", "/">> \o name

SystemPaths(key) ==
    CASE key = "system_caches" -> <<
             <<"/", "System", "/", "Library", "/", "Caches">>,
             <<"/", "Library", "/", "Caches">>,
             <<"/", "private", "/", "var", "/", "folders">>,
             <<"/", "private", "/", "var", "/", "cache">>,
             PrivateVarTmp >>
      [] key = "user_caches" -> <<
             UserCaches,
             Lib(<<"Application Support">>),
             Lib(<<"Logs">>),
             Lib(<<"Saved Application State">>),
             Lib(<<"WebKit">>),
             Home \o <<"/", ".", "Trash">> >>
      [] key = "application_caches" -> <<
             SafariCache,
             UserCaches \o <<"/", "com", ".", "google", ".", "Chrome">>,
             UserCaches \o <<"/", "com", ".", "mozilla", ".", "firefox">>,
             UserCaches \o <<"/", "com", ".", "microsoft", ".", "VSCode">>,
             UserCaches \o <<"/", "com", ".", "jetbrains", ".", "intellij">>,
             UserCaches \o <<"/", "com", ".", "adobe", ".", "Photoshop">>,
             UserCaches \o <<"/", "com", ".", "adobe", ".", "Premiere Pro">> >>
      [] key = "temp_files" -> <<
             TmpDir,
             <<"/", "var", "/", "tmp">>,
             UserCaches \o <<"/", "TemporaryItems">> >>
      [] OTHER -> <<>>       \* dict.get(key, []): "logs" is no key of the table

\* get_browser_paths(): (browser, path) in the dictionary's order
BrowserPaths == <<
    <<"safari", Lib(<<"Safari">>)>>,
    <<"safari", SafariCache>>,
    <<"safari", Lib(<<"WebKit">>)>>,
    <<"chrome", Lib(<<"Application Support", "/", "Google", "/", "Chrome", "/", "Default">>)>>,
    <<"chrome", UserCaches \o <<"/", "Google", "/", "Chrome">>>>,
    <<"chrome", Lib(<<"Application Support", "/", "Google", "/", "Chrome", "/", "Default", "/", "Cache">>)>>,
    <<"firefox", Lib(<<"Application Support", "/", "Firefox", "/", "Profiles">>)>>,
    <<"firefox", UserCaches \o <<"/", "Firefox">>>>,
    <<"edge", Lib(<<"Application Support", "/", "Microsoft Edge", "/", "Default">>)>>,
    <<"edge", UserCaches \o <<"/", "Microsoft Edge">>>> >>

BrowserCategory(b) ==
    CASE b = "safari"  -> "browser_cache_safari"
      [] b = "chrome"  -> "browser_cache_chrome"
      [] b = "firefox" -> "browser_cache_firefox"
      [] b = "edge"    -> "browser_cache_edge"

\* the roots of the duplicate, photo, large-file and old-file passes
Pictures == Home \o <<"/", "Pictures">>
Desktop  == Home \o <<"/", "Desktop">>
Music    == Home \o <<"/", "Music">>
Videos   == Home \o <<"/", "Videos">>

DuplicatePaths == <<Downloads, Desktop, Documents, Pictures, Music, Videos>>
PhotoPaths     == <<Pictures, Downloads, Desktop, Documents>>
LargeFilePaths == <<Downloads, Desktop, Documents, Pictures, Videos, Music>>
OldFilePaths   == <<Downloads, Desktop, Documents>>

PhotoExtensions ==
    { <<".", "jpg">>, <<".", "jpeg">>, <<".", "png">>, <<".", "gif">>,
      <<".", "bmp">>, <<".", "tiff">>, <<".", "webp">>, <<".", "heic">>,
      <<".", "heif">> }

\* only files larger than this are compared as duplicates
MinDuplicateSize == 1024
\* files larger than 10 MiB are large files
LargeFileSize == 10485760
\* files modified more than 90 days ago are old files
OldFileAgeHours == 2160

-----------------------------------------------------------------------------
(* Traversal (system_scanner.py) *)

FileInfo(cfg, f, category) ==
    [file           |-> f,
     size           |-> ContentSize(Catalog[f].content),
     modified       |-> Catalog[f].age,
     file_type      |-> GetFileType(Catalog[f].path),
     category       |-> category,
     safe_to_delete |-> IsSafeToDelete(cfg, Catalog[f].path, category),
     risk_level     |-> GetRiskLevel(Catalog[f].path, category),
     hash           |-> None,
     duplicate_group |-> None]

\* no I/O error is waiting
NoFault == [key |-> None, root |-> 0, after |-> 0]

\* a listing error that ends the whole pass instead of one root
CutAtAbortingPass(d, key, r, flt) ==
    IF flt.key = key /\ flt.root <= r
    THEN (IF flt.root = r THEN flt.after ELSE 0)
    ELSE Len(d)

\* how many entries rglob yields below root number r of the pass `key` before
\* it raises: all of them unless the fault lies on this root
CutAt(d, key, r, flt) ==
    IF flt.key = key /\ flt.root = r THEN flt.after ELSE Len(d)

\* SystemScanner._get_file_info: <<record>> or <<>> (None)
GetFileInfo(cfg, f, category) ==
    IF Catalog[f].age < MinFileAgeHours(cfg) THEN <<>>
    ELSE IF ContentSize(Catalog[f].content) = 0 THEN <<>>
    ELSE <<FileInfo(cfg, f, category)>>

\* SystemScanner._get_enhanced_file_info: every path of the disk exists and is
\* a regular file
GetEnhancedFileInfo(cfg, f, category) == <<FileInfo(cfg, f, category)>>

\* SystemScanner._is_path_excluded
IsPathExcluded(cfg, p) ==
    \E pat \in Range(ExcludePatterns(cfg)) : Contains(pat, p)

RECURSIVE Flatten(_)
Flatten(ss) == IF ss = <<>> THEN <<>> ELSE Head(ss) \o Flatten(Tail(ss))

\* path_obj.exists(): a root exists when the disk holds a file below it
RootExists(d, root) == \E i \in DOMAIN d : IsUnder(root, Catalog[d[i]].path)

\* the position of d[i] among the entries rglob yields below root
EntryRank(d, root, i) ==
    Cardinality({j \in 1..i : IsUnder(root, Catalog[d[j]].path)})

\* SystemScanner._scan_directory: the records it appends to scanned_files.
\* rglob raises after it has yielded `cut` entries (never when cut = Len(d));
\* the outer `except Exception` ends the traversal of this root there.
ScanDirectory(cfg, d, root, category, max_depth, file_patterns, cut) ==
    IF ~ RootExists(d, root) THEN <<>>
    ELSE IF IsPathExcluded(cfg, root) THEN <<>>
    ELSE Flatten([i \in DOMAIN d |->
            LET p == Catalog[d[i]].path IN
            IF ~ IsUnder(root, p) THEN <<>>
            ELSE IF cut < Len(d) /\ EntryRank(d, root, i) > cut THEN <<>>
            ELSE IF Parts(p) - Parts(root) > max_depth THEN <<>>
            ELSE IF file_patterns # <<>>
                    /\ ~ \E k \in DOMAIN file_patterns : PathMatch(file_patterns[k], p)
                 THEN <<>>
            ELSE GetFileInfo(cfg, d[i], category)])

\* os.walk below root: the files whose directory is at most max_depth deep
Walk(d, root, max_depth) ==
    SelectSeq(d, LAMBDA f :
        /\ IsUnder(root, Catalog[f].path)
        /\ Parts(Catalog[f].path) - Parts(root) - 1 <= max_depth)

\* SystemScanner._scan_system_caches, _scan_user_caches,
\* _scan_application_caches, _scan_logs, _scan_temp_files: one loop over the
\* roots of a key
ScanRoots(cfg, d, key, category, deep, quick, file_patterns, flt) ==
    LET roots == SystemPaths(key) IN
    Flatten([r \in DOMAIN roots |->
        ScanDirectory(cfg, d, roots[r], category,
                      IF ~ cfg.quick_mode THEN deep ELSE quick, file_patterns,
                      CutAt(d, key, r, flt))])

\* SystemScanner._scan_browser_caches
ScanBrowserCaches(cfg, d, flt) ==
    Flatten([r \in DOMAIN BrowserPaths |->
        ScanDirectory(cfg, d, BrowserPaths[r][2], BrowserCategory(BrowserPaths[r][1]),
                      IF ~ cfg.quick_mode THEN 3 ELSE 1, <<>>,
                      CutAt(d, "browser_caches", r, flt))])

\* the roots of a pass of _scan_directory calls
RootsOf(key) ==
    IF key = "browser_caches"
    THEN [r \in DOMAIN BrowserPaths |-> BrowserPaths[r][2]]
    ELSE SystemPaths(key)

\* the error rglob raised in the pass over the roots of key, if the fault
\* lies on one of its roots (a directory that exists and whose listing
\* fails) and the root is not excluded
WalkErrors(cfg, d, key, flt) ==
    IF /\ flt.key = key
       /\ flt.root \in DOMAIN RootsOf(key)
       /\ ~ IsPathExcluded(cfg, RootsOf(key)[flt.root])
    THEN <<[kind |-> "walk", where |-> key, item |-> flt.root]>>
    ELSE <<>>

\* SystemScanner._scan_for_duplicates / _scan_directory_for_duplicates
ScanForDuplicates(cfg, d) ==
    Flatten([r \in DOMAIN DuplicatePaths |->
        LET found == Walk(d, DuplicatePaths[r], 5) IN
        Flatten([i \in DOMAIN found |->
            SelectSeq(GetEnhancedFileInfo(cfg, found[i], "potential_duplicate"),
                      LAMBDA rec : rec.size > MinDuplicateSize)])])

\* SystemScanner._scan_photos / _scan_directory_for_photos
ScanPhotos(cfg, d) ==
    Flatten([r \in DOMAIN PhotoPaths |->
        LET found == Walk(d, PhotoPaths[r], 6) IN
        Flatten([i \in DOMAIN found |->
            IF Suffix(Catalog[found[i]].path) \in PhotoExtensions
            THEN GetEnhancedFileInfo(cfg, found[i], "photo")
            ELSE <<>>])])

\* SystemScanner._scan_large_files / _scan_directory_for_large_files
ScanLargeFiles(cfg, d) ==
    Flatten([r \in DOMAIN LargeFilePaths |->
        LET found == Walk(d, LargeFilePaths[r], 4) IN
        Flatten([i \in DOMAIN found |->
            IF ContentSize(Catalog[found[i]].content) > LargeFileSize
            THEN GetEnhancedFileInfo(cfg, found[i], "large_file")
            ELSE <<>>])])

\* SystemScanner._scan_old_files / _scan_directory_for_old_files
ScanOldFiles(cfg, d) ==
    Flatten([r \in DOMAIN OldFilePaths |->
        LET found == Walk(d, OldFilePaths[r], 3) IN
        Flatten([i \in DOMAIN found |->
            IF Catalog[found[i]].age > OldFileAgeHours
            THEN GetEnhancedFileInfo(cfg, found[i], "old_file")
            ELSE <<>>])])

-----------------------------------------------------------------------------
(* Duplicate analysis (system_scanner.py, _analyze_duplicates).  A member   *)
(* of a group is the index of its record in scanned_files: the group and    *)
(* the list hold the same FileInfo object.                                  *)

\* SystemScanner._calculate_file_hash: "" when the file cannot be read
CalculateFileHash(f) ==
    IF Catalog[f].readable THEN Md5(Catalog[f].content) ELSE ""

\* size_groups: is record i in a size bucket of more than one record
InSizeBucket(sf, i) ==
    /\ sf[i].size > MinDuplicateSize
    /\ Cardinality({j \in DOMAIN sf :
           sf[j].size > MinDuplicateSize /\ sf[j].size = sf[i].size}) > 1

\* _calculate_file_hashes over every bucket of more than one record
WithHashes(sf) ==
    [i \in DOMAIN sf |->
        IF InSizeBucket(sf, i)
        THEN [sf[i] EXCEPT !.hash = CalculateFileHash(sf[i].file)]
        ELSE sf[i]]

\* the reads that failed in _calculate_file_hash (logged, "" returned)
HashErrors(sf) ==
    LET bad == SortedSeq({i \in DOMAIN sf :
                   InSizeBucket(sf, i) /\ ~ Catalog[sf[i].file].readable})
    IN [k \in DOMAIN bad |->
           [kind |-> "hash", where |-> "analyze_duplicates", item |-> sf[bad[k]].file]]

\* hash_groups without the `if file_info.hash` filter
HasHashUnfiltered(rec) == TRUE

\* `if file_info.hash`: neither None nor ""
HasHash(rec) == rec.hash # None /\ rec.hash # ""

\* hash_groups[h]: the records with hash h, in the order of scanned_files
HashGroup(sf, h) == SortedSeq({i \in DOMAIN sf : HasHash(sf[i]) /\ sf[i].hash = h})

\* the keys of hash_groups in insertion order
HashKeys(sf) ==
    LET first == SortedSeq({i \in DOMAIN sf :
                     /\ HasHash(sf[i])
                     /\ \A j \in 1..(i-1) : sf[j].hash # sf[i].hash})
    IN [k \in DOMAIN first |-> sf[first[k]].hash]

\* savings that keep no copy
PotentialSavingsKeepNone(sizes) == SumSeq(sizes)

\* potential_savings = total_size - min(f.size for f in files)
PotentialSavings(sizes) == SumSeq(sizes) - MinSeq(sizes)

\* DuplicateGroup(...) for the records with hash h
MakeDuplicateGroup(sf, h) ==
    LET files == HashGroup(sf, h)
        sizes == [k \in DOMAIN files |-> sf[files[k]].size]
    IN [hash              |-> h,
        files             |-> files,
        total_size        |-> SumSeq(sizes),
        potential_savings |-> PotentialSavings(sizes),
        file_type         |-> sf[files[1]].file_type]

\* the groups appended to duplicate_groups: the hashes with more than one record
DuplicateGroupsOf(sf) ==
    LET keys == SelectSeq(HashKeys(sf), LAMBDA h : Len(HashGroup(sf, h)) > 1)
    IN [k \in DOMAIN keys |-> MakeDuplicateGroup(sf, keys[k])]

\* "Mark files as duplicates": record rec is member number pos (from 1) of the
\* group with hash h
MarkDuplicate(rec, pos, h) ==
    IF pos > 1
    THEN [rec EXCEPT !.duplicate_group = h, !.safe_to_delete = TRUE,
                     !.risk_level = "low"]
    ELSE [rec EXCEPT !.duplicate_group = h]

MarkDuplicates(sf, groups) ==
    [i \in DOMAIN sf |->
        IF \E g \in DOMAIN groups : i \in Range(groups[g].files)
        THEN LET g   == CHOOSE g \in DOMAIN groups : i \in Range(groups[g].files)
                 pos == CHOOSE k \in DOMAIN groups[g].files : groups[g].files[k] = i
             IN MarkDuplicate(sf[i], pos, groups[g].hash)
        ELSE sf[i]]

-----------------------------------------------------------------------------
(* Photo analysis and the report (system_scanner.py) *)

\* SystemScanner._analyze_single_photo: compression_ratio in percent
CompressionRatio(p) ==
    LET e == Suffix(p) IN
    IF e \in {<<".", "jpg">>, <<".", "jpeg">>} THEN 80
    ELSE IF e = <<".", "png">> THEN 60
    ELSE IF e = <<".", "gif">> THEN 50
    ELSE 70

\* int(photo.size * (1 - ratio)) in IEEE doubles: 1 - 0.8 is
\* 0.19999999999999996, so an exact fifth of the size is rounded down by one
PhotoSavings(size, ratio) ==
    IF ratio = 80 /\ size > 0 /\ (size * 20) % 100 = 0
    THEN (size * 20) \div 100 - 1
    ELSE (size * (100 - ratio)) \div 100

\* SystemScanner._analyze_photos
AnalyzePhotosOf(sf) ==
    LET idx == SortedSeq({i \in DOMAIN sf : sf[i].category = "photo"})
    IN [k \in DOMAIN idx |->
           [file |-> sf[idx[k]].file, size |-> sf[idx[k]].size,
            compression_ratio |-> CompressionRatio(Catalog[sf[idx[k]].file].path)]]

\* `"cache" in category`
IsCacheCategory(c) ==
    c \in {"system_cache", "user_cache", "application_cache",
           "browser_cache_safari", "browser_cache_chrome",
           "browser_cache_firefox", "browser_cache_edge"}

\* the "categories" dictionary of the report: category -> number of records
CategoryCounts(sf) ==
    [c \in {sf[i].category : i \in DOMAIN sf} |->
        Cardinality({i \in DOMAIN sf : sf[i].category = c})]

\* SystemScanner._calculate_enhanced_scan_results
CalculateEnhancedScanResults(sf, groups, photos, large, old, errors) ==
    LET cache_savings == SumSeq([i \in DOMAIN sf |->
                            IF IsCacheCategory(sf[i].category) THEN sf[i].size ELSE 0])
        duplicate_savings == SumSeq([g \in DOMAIN groups |-> groups[g].potential_savings])
        photo_savings == SumSeq([k \in DOMAIN photos |->
                            PhotoSavings(photos[k].size, photos[k].compression_ratio)])
    IN [success           |-> TRUE,
        total_files       |-> Len(sf),
        total_size        |-> SumSeq([i \in DOMAIN sf |-> sf[i].size]),
        potential_savings |-> cache_savings + duplicate_savings + photo_savings,
        categories        |-> CategoryCounts(sf),
        duplicate_groups  |-> Len(groups),
        photos            |-> Len(photos),
        large_files       |-> Len(large),
        old_files         |-> Len(old),
        errors            |-> errors]

-----------------------------------------------------------------------------
(* SystemScanner.scan_system, step by step.  The passes handed to           *)
(* asyncio.gather never wait, so each one runs to its end before the next   *)
(* one starts, in the order in which they were appended to scan_tasks.      *)

\* the values of pol, del and clean_call before the first call
NoEvaluation == [by |-> None]
NoCall       == [step |-> "idle"]
NoCleanCall  == [called |-> FALSE]
NoApiCall    == [op |-> "none"]

\* self.last_*_result = None
NoResult == [none |-> TRUE]

ScanOptions ==
    [quick_mode : BOOLEAN, include_duplicates : BOOLEAN,
     include_photos : BOOLEAN, include_large_files : BOOLEAN]

NoOptions ==
    [quick_mode |-> FALSE, include_duplicates |-> FALSE,
     include_photos |-> FALSE, include_large_files |-> FALSE]

ScanInit ==
    /\ fs \in Disks
    /\ config \in Configs
    /\ scan_opts = NoOptions
    /\ pc = "idle"
    /\ scanned_files = <<>>
    /\ scan_errors = <<>>
    /\ duplicate_groups = <<>>
    /\ photo_analysis = <<>>
    /\ large_files = <<>>
    /\ old_files = <<>>
    /\ scan_results = None
    /\ raised = <<>> /\ fault = NoFault /\ elapsed = 0
    /\ pol = NoEvaluation
    /\ disk = <<>> /\ del = NoCall /\ backed = {}
    /\ backup_root = FALSE
    /\ clean_disk = {}
    /\ last_clean_result = NoResult
    /\ operation_history = <<>>
    /\ clean_call = NoCleanCall
    /\ last_scan_result = NoResult
    /\ last_optimization_result = NoResult
    /\ api_call = NoApiCall
    /\ held = <<>> /\ call_limit = MaxCalls
    /\ ready = <<>> /\ calls = <<>>

\* scan_system up to the gather: reset the tracking, store the scan mode
ScanStart ==
    /\ pc = "idle"
    /\ \E o \in ScanOptions : scan_opts' = o
    /\ scanned_files' = <<>>
    /\ scan_errors' = <<>>
    /\ duplicate_groups' = <<>>
    /\ photo_analysis' = <<>>
    /\ large_files' = <<>>
    /\ old_files' = <<>>
    /\ config' = [config EXCEPT !.quick_mode = scan_opts'.quick_mode]
    /\ raised' = <<>>
    /\ elapsed' = 0
    /\ pc' = "system_caches"
    /\ UNCHANGED <<fs, scan_results, fault>>
    /\ UNCHANGED <<polVars, delVars, engVars, ovlVars>>

\* a pass that only appends to scanned_files; `errors` are the exceptions
\* that were raised in it, none of which it appends to scan_errors
Pass(here, next, found, errors) ==
    /\ pc = here
    /\ scanned_files' = scanned_files \o found
    /\ raised' = raised \o errors
    /\ pc' = next
    /\ UNCHANGED <<fs, config, scan_opts, scan_errors, duplicate_groups,
                   photo_analysis, large_files, old_files, scan_results,
                   fault, elapsed>>
    /\ UNCHANGED <<polVars, delVars, engVars, ovlVars>>

\* the AttributeError of `self.platform.get(...)`: config.platform is a str
PlatformError == [kind |-> "pass", where |-> "system_caches", item |-> 0]

\* the records one cache, log or temp pass appends to scanned_files
PassFound(cfg, d, key, flt) ==
    CASE key = "system_caches" ->
             ScanRoots(cfg, d, key, "system_cache", 3, 1, <<>>, flt)
      [] key = "user_caches" ->
             ScanRoots(cfg, d, key, "user_cache", 5, 2, <<>>, flt)
      [] key = "application_caches" ->
             ScanRoots(cfg, d, key, "application_cache", 4, 2, <<>>, flt)
      [] key = "browser_caches" ->
             ScanBrowserCaches(cfg, d, flt)
      [] key = "logs" ->
             ScanRoots(cfg, d, key, "log", 4, 2,
                       << <<"*", ".", "log">>, <<"*", ".", "log", ".", "*">> >>, flt)
      [] key = "temp_files" ->
             ScanRoots(cfg, d, key, "temp", 3, 1, <<>>, flt)

\* _scan_system_caches ends by raising PlatformError, which gather keeps
ScanSystemCaches ==
    Pass("system_caches", "user_caches",
         PassFound(config, fs, "system_caches", fault),
         WalkErrors(config, fs, "system_caches", fault) \o <<PlatformError>>)

ScanUserCaches ==
    Pass("user_caches", "application_caches",
         PassFound(config, fs, "user_caches", fault),
         WalkErrors(config, fs, "user_caches", fault))

ScanApplicationCaches ==
    Pass("application_caches", "browser_caches",
         PassFound(config, fs, "application_caches", fault),
         WalkErrors(config, fs, "application_caches", fault))

ScanBrowser ==
    Pass("browser_caches", "logs",
         PassFound(config, fs, "browser_caches", fault),
         WalkErrors(config, fs, "browser_caches", fault))

\* system_paths has no "logs" key: the pass visits no root
ScanLogs ==
    Pass("logs", "temp_files",
         PassFound(config, fs, "logs", fault),
         WalkErrors(config, fs, "logs", fault))

ScanTempFiles ==
    Pass("temp_files", "duplicates",
         PassFound(config, fs, "temp_files", fault),
         WalkErrors(config, fs, "temp_files", fault))

ScanDuplicates ==
    Pass("duplicates", "photos",
         IF scan_opts.include_duplicates /\ ~ scan_opts.quick_mode
         THEN ScanForDuplicates(config, fs) ELSE <<>>,
         <<>>)

ScanPhotoFiles ==
    Pass("photos", "large_files",
         IF scan_opts.include_photos /\ ~ scan_opts.quick_mode
         THEN ScanPhotos(config, fs) ELSE <<>>,
         <<>>)

\* the large-file pass appends each record to large_files and scanned_files
ScanLarge ==
    /\ pc = "large_files"
    /\ LET found == IF scan_opts.include_large_files
                    THEN ScanLargeFiles(config, fs) ELSE <<>>
       IN /\ scanned_files' = scanned_files \o found
          /\ large_files' = large_files \o
                 [k \in DOMAIN found |-> Len(scanned_files) + k]
    /\ pc' = "old_files"
    /\ UNCHANGED <<fs, config, scan_opts, scan_errors, duplicate_groups,
                   photo_analysis, old_files, scan_results,
                   raised, fault, elapsed>>
    /\ UNCHANGED <<polVars, delVars, engVars, ovlVars>>

\* the old-file pass appends each record to old_files and scanned_files
ScanOld ==
    /\ pc = "old_files"
    /\ LET found == IF ~ scan_opts.quick_mode
                    THEN ScanOldFiles(config, fs) ELSE <<>>
       IN /\ scanned_files' = scanned_files \o found
          /\ old_files' = old_files \o
                 [k \in DOMAIN found |-> Len(scanned_files) + k]
    /\ pc' = "analyze_duplicates"
    /\ UNCHANGED <<fs, config, scan_opts, scan_errors, duplicate_groups,
                   photo_analysis, large_files, scan_results,
                   raised, fault, elapsed>>
    /\ UNCHANGED <<polVars, delVars, engVars, ovlVars>>

\* SystemScanner._analyze_duplicates, when scan_system calls it
AnalyzeDuplicates ==
    /\ pc = "analyze_duplicates"
    /\ IF scan_opts.include_duplicates /\ ~ scan_opts.quick_mode
       THEN LET hashed == WithHashes(scanned_files)
                groups == DuplicateGroupsOf(hashed)
            IN /\ duplicate_groups' = duplicate_groups \o groups
               /\ scanned_files' = MarkDuplicates(hashed, groups)
               /\ raised' = raised \o HashErrors(scanned_files)
       ELSE UNCHANGED <<duplicate_groups, scanned_files, raised>>
    /\ pc' = "analyze_photos"
    /\ UNCHANGED <<fs, config, scan_opts, scan_errors, photo_analysis,
                   large_files, old_files, scan_results, fault, elapsed>>
    /\ UNCHANGED <<polVars, delVars, engVars, ovlVars>>

\* SystemScanner._analyze_photos, when scan_system calls it
AnalyzePhotos ==
    /\ pc = "analyze_photos"
    /\ IF scan_opts.include_photos /\ ~ scan_opts.quick_mode
       THEN photo_analysis' = photo_analysis \o AnalyzePhotosOf(scanned_files)
       ELSE UNCHANGED photo_analysis
    /\ pc' = "calculate"
    /\ UNCHANGED <<fs, config, scan_opts, scanned_files, scan_errors,
                   duplicate_groups, large_files, old_files, scan_results,
                   raised, fault, elapsed>>
    /\ UNCHANGED <<polVars, delVars, engVars, ovlVars>>

\* the end of scan_system: the report is computed and returned
CalculateResults ==
    /\ pc = "calculate"
    /\ scan_results' = CalculateEnhancedScanResults(scanned_files, duplicate_groups,
                           photo_analysis, large_files, old_files, scan_errors)
    /\ pc' = "done"
    /\ UNCHANGED <<fs, config, scan_opts, scanned_files, scan_errors,
                   duplicate_groups, photo_analysis, large_files, old_files,
                   raised, fault, elapsed>>
    /\ UNCHANGED <<polVars, delVars, engVars, ovlVars>>

ScanNext ==
    \/ ScanStart
    \/ ScanSystemCaches
    \/ ScanUserCaches
    \/ ScanApplicationCaches
    \/ ScanBrowser
    \/ ScanLogs
    \/ ScanTempFiles
    \/ ScanDuplicates
    \/ ScanPhotoFiles
    \/ ScanLarge
    \/ ScanOld
    \/ AnalyzeDuplicates
    \/ AnalyzePhotos
    \/ CalculateResults

SpecScan == ScanInit /\ [][ScanNext]_vars

-----------------------------------------------------------------------------
(* Properties of the scan report (checked under SpecScan).  The report is   *)
(* the scanner's lists when scan_system returns (pc = "done").              *)

ReportReturned == pc = "done"

DuplicatesAnalysed ==
    ReportReturned /\ scan_opts.include_duplicates /\ ~ scan_opts.quick_mode

PathOf(rec) == Catalog[rec.file].path

IsBlacklisted(cfg, p) ==
    \E b \in Range(BlacklistPaths(cfg)) : Contains(b, p)

IsWhitelisted(cfg, p) ==
    \E w \in Range(WhitelistPaths(cfg)) : Contains(w, p)

\* the records of group g, in the group's order
MembersOf(g) == [k \in DOMAIN g.files |-> scanned_files[g.files[k]]]

\* C3: in every scan report, a record whose path contains a blacklist
\* substring has safe_to_delete = FALSE, whatever its category and whether or
\* not it is a member of a DuplicateGroup.
C3_BlacklistedNeverSafe ==
    ReportReturned =>
        \A i \in DOMAIN scanned_files :
            IsBlacklisted(config, PathOf(scanned_files[i]))
                => ~ scanned_files[i].safe_to_delete

\* C5: every record of a scan report whose age in hours is below
\* config.cleaning.min_file_age_hours has safe_to_delete = FALSE, whichever
\* pass produced it, also after duplicate analysis.
C5_YoungNeverSafe ==
    ReportReturned =>
        \A i \in DOMAIN scanned_files :
            scanned_files[i].modified < MinFileAgeHours(config)
                => ~ scanned_files[i].safe_to_delete

\* C6: in every scan report, a record with risk_level = "high" never has
\* safe_to_delete = TRUE.
C6_HighRiskNeverSafe ==
    ReportReturned =>
        \A i \in DOMAIN scanned_files :
            scanned_files[i].risk_level = "high"
                => ~ scanned_files[i].safe_to_delete

\* C7: after duplicate analysis every DuplicateGroup has exactly one member
\* that is retained (safe_to_delete = FALSE) while all its other members are
\* marked safe_to_delete, so the copies are never all deletable at once.
C7_OneRetainedPerGroup ==
    ReportReturned =>
        \A g \in DOMAIN duplicate_groups :
            LET m == MembersOf(duplicate_groups[g]) IN
            /\ Cardinality({k \in DOMAIN m : ~ m[k].safe_to_delete}) = 1
            /\ \E k \in DOMAIN m :
                   /\ ~ m[k].safe_to_delete
                   /\ \A j \in DOMAIN m : j # k => m[j].safe_to_delete

\* C8: every DuplicateGroup has at least 2 members, and all its members have
\* the same size and the same content hash, which is neither missing nor
\* empty.
C8_GroupMembersAlike ==
    \A g \in DOMAIN duplicate_groups :
        LET grp == duplicate_groups[g]
            m   == MembersOf(grp)
        IN /\ Len(m) >= 2
           /\ grp.hash # None /\ grp.hash # ""
           /\ \A k \in DOMAIN m :
                  /\ m[k].hash = grp.hash
                  /\ m[k].size = m[1].size
                  /\ Md5(Catalog[m[k].file].content) = grp.hash

\* a report with a group of two different files, next to a record whose file
\* could not be read and a record of the same size with another content
C8_Witness ==
    /\ ReportReturned
    /\ \E g \in DOMAIN duplicate_groups :
          LET m == MembersOf(duplicate_groups[g]) IN
          /\ \E j, k \in DOMAIN m : m[j].file # m[k].file
          /\ \E i \in DOMAIN scanned_files :
                /\ scanned_files[i].size = m[1].size
                /\ scanned_files[i].hash # m[1].hash

\* C9: for every DuplicateGroup, total_size is the sum of the member sizes,
\* potential_savings = total_size - (size of the first, retained member), and
\* potential_savings >= 0.
C9_GroupSavings ==
    \A g \in DOMAIN duplicate_groups :
        LET grp == duplicate_groups[g]
            m   == MembersOf(grp)
        IN /\ grp.total_size = SumSeq([k \in DOMAIN m |-> m[k].size])
           /\ grp.potential_savings = grp.total_size - m[1].size
           /\ grp.potential_savings >= 0

\* a report with a group of two different files of 5 KiB: savings 5120
C9_Witness ==
    /\ ReportReturned
    /\ \E g \in DOMAIN duplicate_groups :
          LET m == MembersOf(duplicate_groups[g]) IN
          /\ Len(m) = 2
          /\ m[1].file # m[2].file
          /\ duplicate_groups[g].potential_savings = 5120

\* does the path match a glob of config.scanning.exclude_patterns
IsExcluded(cfg, p) ==
    \E pat \in Range(ExcludePatterns(cfg)) : PathMatch(pat, p)

\* C11: in every scan report, a record whose path matches a configured
\* exclude_patterns glob (e.g. *.important) has safe_to_delete = FALSE, also
\* in an otherwise cleanable cache folder and after duplicate analysis.
C11_ExcludedNeverSafe ==
    ReportReturned =>
        \A i \in DOMAIN scanned_files :
            IsExcluded(config, PathOf(scanned_files[i]))
                => ~ scanned_files[i].safe_to_delete

\* the files of the report and, for a file, the files with the same content
ScannedFileSet == {scanned_files[i].file : i \in DOMAIN scanned_files}

\* the scanned files whose bytes can be read and equal those of f
SameContent(f) ==
    {h \in ScannedFileSet :
        Catalog[h].readable /\ Catalog[h].content = Catalog[f].content}

\* C10: duplicate analysis groups exactly the duplicated files: each maximal
\* set of two or more distinct scanned files larger than 1024 bytes with
\* identical content is one DuplicateGroup whose members are exactly those
\* files, each listed once, and a file whose content is unique is in no group.
C10_GroupsExactlyTheDuplicates ==
    DuplicatesAnalysed =>
        \A f \in ScannedFileSet :
            LET holders == {g \in DOMAIN duplicate_groups :
                          \E k \in DOMAIN duplicate_groups[g].files :
                              scanned_files[duplicate_groups[g].files[k]].file = f}
            IN IF /\ Catalog[f].readable
                  /\ ContentSize(Catalog[f].content) > MinDuplicateSize
                  /\ Cardinality(SameContent(f)) >= 2
               THEN /\ Cardinality(holders) = 1
                    /\ \A g \in holders :
                          LET m == MembersOf(duplicate_groups[g]) IN
                          /\ {m[k].file : k \in DOMAIN m} = SameContent(f)
                          /\ Len(m) = Cardinality(SameContent(f))
               ELSE holders = {}

-----------------------------------------------------------------------------
(* The two safety evaluators of the code base, one call at a time:          *)
(* SystemScanner._is_safe_to_delete with the lists of the configuration,    *)
(* FileUtils.is_safe_to_delete with the lists its caller hands over.        *)

\* the categories the scan passes give to their records
Categories ==
    {"system_cache", "user_cache", "application_cache", "log", "temp",
     "potential_duplicate", "photo", "large_file", "old_file"}

PolicyInit ==
    /\ fs = <<>>
    /\ config \in Configs
    /\ scan_opts = NoOptions
    /\ pc = "idle"
    /\ scanned_files = <<>>
    /\ scan_errors = <<>>
    /\ duplicate_groups = <<>>
    /\ photo_analysis = <<>>
    /\ large_files = <<>>
    /\ old_files = <<>>
    /\ scan_results = None
    /\ raised = <<>> /\ fault = NoFault /\ elapsed = 0
    /\ pol = NoEvaluation
    /\ disk = <<>> /\ del = NoCall /\ backed = {}
    /\ backup_root = FALSE
    /\ clean_disk = {}
    /\ last_clean_result = NoResult
    /\ operation_history = <<>>
    /\ clean_call = NoCleanCall
    /\ last_scan_result = NoResult
    /\ last_optimization_result = NoResult
    /\ api_call = NoApiCall
    /\ held = <<>> /\ call_limit = MaxCalls
    /\ ready = <<>> /\ calls = <<>>

\* self._is_safe_to_delete(file_path, category)
EvalScannerPolicy ==
    /\ \E f \in FileIds, c \in Categories :
          pol' = [by        |-> "SystemScanner",
                  file      |-> f,
                  category  |-> c,
                  whitelist |-> WhitelistPaths(config),
                  blacklist |-> BlacklistPaths(config),
                  safe      |-> IsSafeToDelete(config, Catalog[f].path, c)]
    /\ UNCHANGED <<scanVars, delVars, engVars, ovlVars>>

\* FileUtils.is_safe_to_delete(file_path, whitelist, blacklist); a list that
\* is left out is None, which the function replaces by []
EvalFileUtilsPolicy ==
    /\ \E f \in FileIds,
          wl \in {<<>>, WhitelistPaths(config)},
          bl \in {<<>>, BlacklistPaths(config)} :
          pol' = [by        |-> "FileUtils",
                  file      |-> f,
                  category  |-> None,
                  whitelist |-> wl,
                  blacklist |-> bl,
                  safe      |-> FileUtilsIsSafeToDelete(Catalog[f].path, wl, bl)]
    /\ UNCHANGED <<scanVars, delVars, engVars, ovlVars>>

PolicyNext ==
    \/ EvalScannerPolicy
    \/ EvalFileUtilsPolicy

SpecPolicy == PolicyInit /\ [][PolicyNext]_vars

\* C4: the whitelist is a protection list in every safety evaluation
\* (SystemScanner._is_safe_to_delete and FileUtils.is_safe_to_delete): a path
\* that contains a whitelist substring is evaluated as not safe to delete.
C4_WhitelistProtects ==
    pol.by # None =>
        ((\E w \in Range(pol.whitelist) : Contains(w, Catalog[pol.file].path))
            => ~ pol.safe)

-----------------------------------------------------------------------------
(* FileUtils.safe_delete_file and FileUtils.safe_delete_directory           *)
(* (src/src/purrify_core/utils/file_utils.py), statement by statement.      *)
(* The disk holds a directory "data" with the files a and b, a directory    *)
(* "other" with a file a, a backup root "bk" and, under it, the place       *)
(* "bk/data" where a backup of "data" lands.                                *)
(* A directory exists when it holds a file.                                 *)

\* a location without a file
NoFile == 0

\* what a copy that broke off leaves behind: bytes of no original
Truncated == MaxContent + 1

DataDir   == <<"data">>
OtherDir  == <<"other">>
BackupDir == <<"bk">>

Locations ==
    { [dir |-> DataDir, name |-> "a"], [dir |-> DataDir, name |-> "b"],
      [dir |-> OtherDir, name |-> "a"],
      [dir |-> BackupDir, name |-> "a"],
      [dir |-> BackupDir \o DataDir, name |-> "a"],
      [dir |-> BackupDir \o DataDir, name |-> "b"] }

\* the file_path / dir_path arguments of the calls
FilePaths == { [dir |-> DataDir, name |-> "a"], [dir |-> OtherDir, name |-> "a"],
               [dir |-> BackupDir, name |-> "a"] }
DirPaths  == { DataDir }

\* the backup_dir arguments: None, "" and "bk"
NoneDir    == <<None>>
BackupDirs == { NoneDir, <<>>, BackupDir }

\* `if backup_dir:`
BackupRequested(backup_dir) == backup_dir # NoneDir /\ backup_dir # <<>>

\* the files of directory d
FilesIn(d) == {l \in Locations : l.dir = d}

\* path.exists()
Exists(d, call) ==
    IF call.op = "file"
    THEN d[call.path] # NoFile
    ELSE \E l \in FilesIn(call.path) : d[l] # NoFile

\* backup_path = Path(backup_dir) / path.name, and where the file at
\* location l of the deleted path lands below it
BackupLocation(call, l) ==
    IF call.op = "file"
    THEN [dir |-> call.backup_dir, name |-> l.name]
    ELSE [dir |-> call.backup_dir \o call.path, name |-> l.name]

\* the except clause entered whatever the copy did: the call goes on to the
\* deletion
AfterCopyIgnoringError(call, copied) ==
    [call EXCEPT !.step = "remove",
                 !.copy = IF copied THEN "ok" ELSE "failed"]

\* after shutil.copy2 / shutil.copytree: on to the deletion, or, when the copy
\* raised, into `except (OSError, PermissionError): return False`
AfterCopy(call, copied) ==
    IF copied
    THEN [call EXCEPT !.step = "remove", !.copy = "ok"]
    ELSE [call EXCEPT !.step = "returned", !.copy = "failed", !.result = FALSE]

FileUtilsInit ==
    /\ fs = <<>>
    /\ config = MacConfig
    /\ scan_opts = NoOptions
    /\ pc = "idle"
    /\ scanned_files = <<>>
    /\ scan_errors = <<>>
    /\ duplicate_groups = <<>>
    /\ photo_analysis = <<>>
    /\ large_files = <<>>
    /\ old_files = <<>>
    /\ scan_results = None
    /\ raised = <<>> /\ fault = NoFault /\ elapsed = 0
    /\ pol = NoEvaluation
    /\ disk \in [Locations -> 0..MaxContent]
    /\ del = NoCall /\ backed = {}
    /\ backup_root = FALSE
    /\ clean_disk = {}
    /\ last_clean_result = NoResult
    /\ operation_history = <<>>
    /\ clean_call = NoCleanCall
    /\ last_scan_result = NoResult
    /\ last_optimization_result = NoResult
    /\ api_call = NoApiCall
    /\ held = <<>> /\ call_limit = MaxCalls
    /\ ready = <<>> /\ calls = <<>>

\* a caller enters safe_delete_file(file_path, backup_dir)
SafeDeleteFile ==
    /\ del.step \in {"idle", "returned"}
    /\ \E p \in FilePaths, b \in BackupDirs :
          del' = [op |-> "file", path |-> p, backup_dir |-> b,
                  step |-> "exists", copy |-> "none", result |-> FALSE]
    /\ UNCHANGED <<disk, backed>>
    /\ UNCHANGED <<scanVars, polVars, engVars, ovlVars>>

\* a caller enters safe_delete_directory(dir_path, backup_dir)
SafeDeleteDirectory ==
    /\ del.step \in {"idle", "returned"}
    /\ \E p \in DirPaths, b \in BackupDirs :
          del' = [op |-> "dir", path |-> p, backup_dir |-> b,
                  step |-> "exists", copy |-> "none", result |-> FALSE]
    /\ UNCHANGED <<disk, backed>>
    /\ UNCHANGED <<scanVars, polVars, engVars, ovlVars>>

\* `if not path.exists(): return False`, then `if backup_dir:`
CheckExists ==
    /\ del.step = "exists"
    /\ del' = IF ~ Exists(disk, del)
              THEN [del EXCEPT !.step = "returned", !.result = FALSE]
              ELSE IF BackupRequested(del.backup_dir)
              THEN [del EXCEPT !.step = "backup"]
              ELSE [del EXCEPT !.step = "remove"]
    /\ UNCHANGED <<disk, backed>>
    /\ UNCHANGED <<scanVars, polVars, engVars, ovlVars>>

\* backup_path.parent.mkdir(...); shutil.copy2(path, backup_path).  The copy
\* succeeds, or raises before it wrote, or raises after it wrote a part; it
\* raises SameFileError when backup_path is the file itself.
CopyFile ==
    /\ del.step = "backup" /\ del.op = "file"
    /\ LET target == BackupLocation(del, del.path) IN
       \E outcome \in {"ok", "error", "truncated"} :
          /\ outcome # "error" => target # del.path
          /\ disk' = IF outcome = "ok"
                     THEN [disk EXCEPT ![target] = disk[del.path]]
                     ELSE IF outcome = "truncated"
                     THEN [disk EXCEPT ![target] = Truncated]
                     ELSE disk
          /\ backed' = IF outcome = "ok"
                       THEN backed \cup {[original |-> del.path, backup |-> target]}
                       ELSE backed
          /\ del' = AfterCopy(del, outcome = "ok")
    /\ UNCHANGED <<scanVars, polVars, engVars, ovlVars>>

\* path.unlink(): the file is gone, or OSError and it is still there
UnlinkFile ==
    /\ del.step = "remove" /\ del.op = "file"
    /\ \E ok \in BOOLEAN :
          /\ disk' = IF ok THEN [disk EXCEPT ![del.path] = NoFile] ELSE disk
          /\ backed' = IF ok THEN {b \in backed : b.backup # del.path} ELSE backed
          /\ del' = [del EXCEPT !.step = "returned", !.result = ok]
    /\ UNCHANGED <<scanVars, polVars, engVars, ovlVars>>

\* the files of the directory of the call that are on disk d
Present(d, call) == {l \in FilesIn(call.path) : d[l] # NoFile}

\* backup_path.parent.mkdir(...); shutil.copytree(path, backup_path).
\* copytree raises at once when backup_path exists; otherwise it copies file
\* after file and raises at the end when one of them could not be copied.
CopyTree ==
    /\ del.step = "backup" /\ del.op = "dir"
    /\ IF \E l \in Present(disk, del) : disk[BackupLocation(del, l)] # NoFile
          \/ \E t \in FilesIn(del.backup_dir \o del.path) : disk[t] # NoFile
       THEN /\ disk' = disk
            /\ backed' = backed
            /\ del' = AfterCopy(del, FALSE)
       ELSE \E done \in SUBSET Present(disk, del), ok \in BOOLEAN :
               /\ ok => done = Present(disk, del)
               /\ disk' = [t \in Locations |->
                              IF \E l \in done : BackupLocation(del, l) = t
                              THEN disk[CHOOSE l \in done : BackupLocation(del, l) = t]
                              ELSE disk[t]]
               /\ backed' = backed \cup {[original |-> l,
                                           backup |-> BackupLocation(del, l)] :
                                              l \in done}
               /\ del' = AfterCopy(del, ok)
    /\ UNCHANGED <<scanVars, polVars, engVars, ovlVars>>

\* shutil.rmtree(path): every file is removed, or OSError after some of them
RemoveTree ==
    /\ del.step = "remove" /\ del.op = "dir"
    /\ \E gone \in SUBSET Present(disk, del), ok \in BOOLEAN :
          /\ ok => gone = Present(disk, del)
          /\ disk' = [l \in Locations |-> IF l \in gone THEN NoFile ELSE disk[l]]
          /\ backed' = {b \in backed : b.backup \notin gone}
          /\ del' = [del EXCEPT !.step = "returned", !.result = ok]
    /\ UNCHANGED <<scanVars, polVars, engVars, ovlVars>>

FileUtilsNext ==
    \/ SafeDeleteFile
    \/ SafeDeleteDirectory
    \/ CheckExists
    \/ CopyFile
    \/ UnlinkFile
    \/ CopyTree
    \/ RemoveTree

SpecFileUtils == FileUtilsInit /\ [][FileUtilsNext]_vars

\* a step of a call with a backup requested takes the file at location l away
RemovedWithBackup(l) ==
    /\ del.step # "idle"
    /\ BackupRequested(del.backup_dir)
    /\ disk[l] # NoFile
    /\ disk'[l] = NoFile

\* C2: backup before delete.  Whenever a step of safe_delete_file (or
\* safe_delete_directory) with backup_dir set removes a file, the copy has
\* succeeded and a copy with the same bytes is already at the backup path,
\* which is another place than the original; and a call whose backup copy
\* failed has returned False and removes nothing.
C2_BackupBeforeDelete ==
    /\ [][\A l \in Locations :
            RemovedWithBackup(l) =>
                /\ del.copy = "ok"
                /\ BackupLocation(del, l) # l
                /\ disk[BackupLocation(del, l)] = disk[l]]_vars
    /\ []((del.step # "idle" /\ del.copy = "failed")
            => (del.step = "returned" /\ ~ del.result))
    /\ [][(del.step # "idle" /\ del.copy = "failed")
            => \A l \in Locations : disk[l] # NoFile => disk'[l] # NoFile]_vars

\* safe_delete_file with a backup directory returned True: the original is
\* gone and its bytes are at the backup path
C2_Witness ==
    /\ del.step = "returned"
    /\ del.op = "file"
    /\ BackupRequested(del.backup_dir)
    /\ del.result
    /\ disk[del.path] = NoFile
    /\ disk[BackupLocation(del, del.path)] \in 1..MaxContent

-----------------------------------------------------------------------------
(* PurrifyEngine.clean_system (src/src/purrify/core/engine.py) with the     *)
(* CacheCleaner it drives (src/src/purrify/cleaners/cache_cleaner.py).      *)
(* Nothing in the call waits for another task: it runs from its first       *)
(* statement to its return in one step.                                     *)

\* the keys of clean_options: the three CacheCleaner.clean_system reads and
\* "system_caches", which the docstring of the engine names
CleanKeys == {"caches", "logs", "temp_files", "system_caches"}

\* a clean_options dictionary: per key its flag, or "absent"
CleanOptions == [CleanKeys -> {"absent", "true", "false"}]

\* a validation that takes no dictionary for empty
NeverEmptyOptions(o) == FALSE

\* `not clean_options`
IsEmptyOptions(o) == \A k \in CleanKeys : o[k] = "absent"

\* clean_options.get(key, False)
GetOption(o, key) == o[key] = "true"

\* the dataclass CleanResult (clean_duration left out)
CleanResult(files_cleaned, space_freed, clean_errors, backup_created, backup_path) ==
    [files_cleaned  |-> files_cleaned,
     space_freed    |-> space_freed,
     clean_errors   |-> clean_errors,
     backup_created |-> backup_created,
     backup_path    |-> backup_path]

\* PurrifyEngine._create_error_clean_result
CreateErrorCleanResult(error) == CleanResult(0, 0, <<error>>, FALSE, None)

\* CacheCleaner._clean_caches, _clean_logs, _clean_temp_files: placeholders
\* that remove nothing and return an empty result
CleanCaches(safe_mode, backup_path)    == CleanResult(0, 0, <<>>, FALSE, None)
CleanLogs(safe_mode, backup_path)      == CleanResult(0, 0, <<>>, FALSE, None)
CleanTempFiles(safe_mode, backup_path) == CleanResult(0, 0, <<>>, FALSE, None)

\* CacheCleaner.clean_system: the sum of the parts that were asked for
CacheCleanerCleanSystem(o, safe_mode, backup_path) ==
    LET parts ==
            (IF GetOption(o, "caches")
             THEN <<CleanCaches(safe_mode, backup_path)>> ELSE <<>>)
         \o (IF GetOption(o, "logs")
             THEN <<CleanLogs(safe_mode, backup_path)>> ELSE <<>>)
         \o (IF GetOption(o, "temp_files")
             THEN <<CleanTempFiles(safe_mode, backup_path)>> ELSE <<>>)
    IN CleanResult(SumSeq([k \in DOMAIN parts |-> parts[k].files_cleaned]),
                   SumSeq([k \in DOMAIN parts |-> parts[k].space_freed]),
                   Flatten([k \in DOMAIN parts |-> parts[k].clean_errors]),
                   backup_path # None,
                   backup_path)

\* a backup taken whenever create_backup is set
NeedsBackupInAnyMode(create_backup, safe_mode) == create_backup

\* `if create_backup and not safe_mode:`
NeedsBackup(create_backup, safe_mode) == create_backup /\ ~ safe_mode

\* PurrifyEngine._create_backup: CacheCleaner.create_backup makes ./backups
\* and returns nothing, so the engine returns str(None); None when mkdir raised
CreateBackup(mkdir_ok) == IF mkdir_ok THEN "None" ELSE None

\* PurrifyEngine._add_to_operation_history('clean', result)
HistoryEntry(result) ==
    [operation |-> "clean", success |-> Len(result.clean_errors) = 0]

\* the files a cleanup could remove
Cleanable == {7, 8}

EngineInit ==
    /\ fs = <<>>
    /\ config = MacConfig
    /\ scan_opts = NoOptions
    /\ pc = "idle"
    /\ scanned_files = <<>>
    /\ scan_errors = <<>>
    /\ duplicate_groups = <<>>
    /\ photo_analysis = <<>>
    /\ large_files = <<>>
    /\ old_files = <<>>
    /\ scan_results = None
    /\ raised = <<>> /\ fault = NoFault /\ elapsed = 0
    /\ pol = NoEvaluation
    /\ disk = <<>> /\ del = NoCall /\ backed = {}
    /\ backup_root \in BOOLEAN
    /\ clean_disk \in SUBSET Cleanable
    /\ last_clean_result = NoResult
    /\ operation_history = <<>>
    /\ clean_call = NoCleanCall
    /\ last_scan_result = NoResult
    /\ last_optimization_result = NoResult
    /\ api_call = NoApiCall
    /\ held = <<>> /\ call_limit = MaxCalls
    /\ ready = <<>> /\ calls = <<>>

\* what the call can see of the filesystem
Filesystem(root, files) == [backup_root |-> root, files |-> files]

\* clean_system(clean_options, safe_mode, create_backup), from call to return;
\* mkdir_ok tells whether ./backups can be created
CleanSystemCall(o, safe_mode, create_backup, mkdir_ok) ==
    LET backing     == NeedsBackup(create_backup, safe_mode)
        backup_path == IF backing THEN CreateBackup(mkdir_ok) ELSE None
        result      == IF IsEmptyOptions(o)
                       THEN CreateErrorCleanResult("Clean options cannot be empty")
                       ELSE CacheCleanerCleanSystem(o, safe_mode, backup_path)
    IN /\ IF IsEmptyOptions(o)
          THEN UNCHANGED <<backup_root, last_clean_result, operation_history>>
          ELSE /\ backup_root' = (backup_root \/ (backing /\ mkdir_ok))
               /\ last_clean_result' = result
               /\ operation_history' =
                      Append(operation_history, HistoryEntry(result))
       /\ clean_disk' = clean_disk
       /\ clean_call' = [called        |-> TRUE,
                         clean_options |-> o,
                         safe_mode     |-> safe_mode,
                         create_backup |-> create_backup,
                         backup_root_creatable |-> mkdir_ok,
                         cleaner_invoked |-> ~ IsEmptyOptions(o),
                         before        |-> Filesystem(backup_root, clean_disk),
                         after         |-> Filesystem(backup_root', clean_disk'),
                         result        |-> result]

CleanSystem ==
    /\ Len(operation_history) < MaxOps
    /\ \E o \in CleanOptions, safe_mode \in BOOLEAN, create_backup \in BOOLEAN,
          mkdir_ok \in BOOLEAN :
          /\ ~ NeedsBackup(create_backup, safe_mode) => mkdir_ok
          /\ CleanSystemCall(o, safe_mode, create_backup, mkdir_ok)
    /\ UNCHANGED <<last_scan_result, last_optimization_result, api_call,
                   held, call_limit>>
    /\ UNCHANGED <<scanVars, polVars, delVars, ovlVars>>

EngineNext == CleanSystem

SpecEngine == EngineInit /\ [][EngineNext]_vars

\* C1: for every clean_system call with safe_mode = true, whatever the clean
\* options and the create_backup flag, the filesystem after the call is the
\* filesystem before it (no file copied or deleted, no backup root created)
\* and the result reports files_cleaned = 0.
C1_SafeModeChangesNothing ==
    (clean_call.called /\ clean_call.safe_mode) =>
        /\ clean_call.after = clean_call.before
        /\ clean_call.result.files_cleaned = 0

\* C12: if a backup was requested (safe_mode = false, create_backup = true)
\* and the backup root cannot be created, clean_system aborts the remaining
\* plan: the cleaner is not run, no file is deleted and the failure is
\* surfaced to the caller as an error of the result.
C12_BackupFailureAborts ==
    (/\ clean_call.called
     /\ ~ clean_call.safe_mode
     /\ clean_call.create_backup
     /\ ~ clean_call.backup_root_creatable
     /\ ~ IsEmptyOptions(clean_call.clean_options)) =>
        /\ ~ clean_call.cleaner_invoked
        /\ clean_call.after.files = clean_call.before.files
        /\ Len(clean_call.result.clean_errors) > 0

\* C14: a clean_system call with no enabled category (an empty clean_options
\* mapping, or one in which no flag is true) is rejected as a configuration
\* error (an error result) and the cleaner is not invoked.
C14_NoCategoryRejected ==
    (/\ clean_call.called
     /\ \A k \in CleanKeys : ~ GetOption(clean_call.clean_options, k)) =>
        /\ ~ clean_call.cleaner_invoked
        /\ Len(clean_call.result.clean_errors) > 0

\* a safe-mode call that asks for a backup and for the caches to be cleaned,
\* on a disk with cleanable files and no backup root yet
C1_Witness ==
    /\ clean_call.called
    /\ clean_call.safe_mode
    /\ clean_call.create_backup
    /\ GetOption(clean_call.clean_options, "caches")
    /\ clean_call.before.files # {}
    /\ ~ clean_call.before.backup_root
    /\ Len(clean_call.result.clean_errors) = 0


-----------------------------------------------------------------------------
(* The scanner on a disk whose listing fails: SpecScanFaults runs the same  *)
(* scan on small disks of cache and temporary files, with one root of one   *)
(* pass raising an I/O error after some entries.                            *)

MaxAfter == 1

\* files below the roots of the cache and temp passes: one in the Safari
\* cache, two in the temp directory, one in /private/var/tmp
FaultFiles == {7, 8, 9, 11}

FaultDisks == {d \in Disks : Range(d) \subseteq FaultFiles}

\* (pass, root number) of the directories whose listing may fail
FaultRoots == {<<"system_caches", 1>>, <<"system_caches", 5>>,
               <<"user_caches", 1>>, <<"application_caches", 1>>,
               <<"browser_caches", 2>>, <<"temp_files", 1>>}

Faults ==
    {NoFault} \cup
    {[key |-> kr[1], root |-> kr[2], after |-> n] :
        kr \in FaultRoots, n \in 0..MaxAfter}

FaultInit ==
    /\ fs \in FaultDisks
    /\ fault \in Faults
    /\ config \in Configs
    /\ scan_opts = NoOptions
    /\ pc = "idle"
    /\ scanned_files = <<>>
    /\ scan_errors = <<>>
    /\ duplicate_groups = <<>>
    /\ photo_analysis = <<>>
    /\ large_files = <<>>
    /\ old_files = <<>>
    /\ scan_results = None
    /\ raised = <<>> /\ elapsed = 0
    /\ pol = NoEvaluation
    /\ disk = <<>> /\ del = NoCall /\ backed = {}
    /\ backup_root = FALSE
    /\ clean_disk = {}
    /\ last_clean_result = NoResult
    /\ operation_history = <<>>
    /\ clean_call = NoCleanCall
    /\ last_scan_result = NoResult
    /\ last_optimization_result = NoResult
    /\ api_call = NoApiCall
    /\ held = <<>> /\ call_limit = MaxCalls
    /\ ready = <<>> /\ calls = <<>>

SpecScanFaults == FaultInit /\ [][ScanNext]_vars

\* C17: every non-fatal error that occurred during a scan (an exception of a
\* pass under the gather, an error swallowed while walking a root, a failed
\* hash read) appears in the errors of the report the scan returns.
C17_ErrorsReported ==
    ReportReturned =>
        \A k \in DOMAIN raised : raised[k] \in Range(scan_results.errors)


\* the keys of the passes that walk their roots with _scan_directory
PassKeys == {"system_caches", "user_caches", "application_caches",
             "browser_caches", "logs", "temp_files"}

\* the record lies below the root whose listing failed
UnderFaultyRoot(key, rec) ==
    /\ fault.key = key
    /\ fault.root \in DOMAIN RootsOf(key)
    /\ IsUnder(RootsOf(key)[fault.root], PathOf(rec))

Reported(rec) ==
    \E i \in DOMAIN scanned_files :
        /\ scanned_files[i].file = rec.file
        /\ scanned_files[i].category = rec.category

\* C18: an I/O error while one root is traversed does not stop the traversal
\* of any other root: every record the scan collects from the other roots
\* when no listing fails, in the same pass and in the other passes, is in
\* the report.
C18_OtherRootsCollected ==
    ReportReturned =>
        \A key \in PassKeys :
            LET found == PassFound(config, fs, key, NoFault) IN
            \A k \in DOMAIN found :
                UnderFaultyRoot(key, found[k]) \/ Reported(found[k])

\* a listing failed in the system-cache pass, and the report holds a record
\* of a later root of that pass and a record of another pass
C18_Witness ==
    /\ ReportReturned
    /\ \E k \in DOMAIN raised :
           raised[k].kind = "walk" /\ raised[k].where = "system_caches"
    /\ \E i, j \in DOMAIN scanned_files :
           /\ scanned_files[i].category = "system_cache"
           /\ scanned_files[j].category = "temp"


-----------------------------------------------------------------------------
(* The scan against the clock: SpecScanClock lets time pass while the       *)
(* passes run.  scan_system takes scan_start = time.time() and computes the *)
(* duration when the passes are over; nothing reads config.scan_timeout.    *)

MaxTicks == 2

\* ScanningConfig.scan_timeout, in seconds
ScanTimeout == 300

\* the entry a scan that ran out of time would add to its errors
TimeoutEntry == [kind |-> "timeout", where |-> "scan_system", item |-> ScanTimeout]

\* scan_timeout seconds pass while the scan is between two passes
Tick ==
    /\ pc \notin {"idle", "done"}
    /\ elapsed < MaxTicks * ScanTimeout
    /\ elapsed' = elapsed + ScanTimeout
    /\ UNCHANGED <<fs, config, scan_opts, pc, scanned_files, scan_errors,
                   duplicate_groups, photo_analysis, large_files, old_files,
                   scan_results, raised, fault>>
    /\ UNCHANGED <<polVars, delVars, engVars, ovlVars>>

ClockInit ==
    /\ fs \in FaultDisks
    /\ fault = NoFault
    /\ config \in Configs
    /\ scan_opts = NoOptions
    /\ pc = "idle"
    /\ scanned_files = <<>>
    /\ scan_errors = <<>>
    /\ duplicate_groups = <<>>
    /\ photo_analysis = <<>>
    /\ large_files = <<>>
    /\ old_files = <<>>
    /\ scan_results = None
    /\ raised = <<>> /\ elapsed = 0
    /\ pol = NoEvaluation
    /\ disk = <<>> /\ del = NoCall /\ backed = {}
    /\ backup_root = FALSE
    /\ clean_disk = {}
    /\ last_clean_result = NoResult
    /\ operation_history = <<>>
    /\ clean_call = NoCleanCall
    /\ last_scan_result = NoResult
    /\ last_optimization_result = NoResult
    /\ api_call = NoApiCall
    /\ held = <<>> /\ call_limit = MaxCalls
    /\ ready = <<>> /\ calls = <<>>

ClockNext ==
    \/ ScanStart
    \/ ScanSystemCaches
    \/ ScanUserCaches
    \/ ScanApplicationCaches
    \/ ScanBrowser
    \/ ScanLogs
    \/ ScanTempFiles
    \/ ScanDuplicates
    \/ ScanPhotoFiles
    \/ ScanLarge
    \/ ScanOld
    \/ AnalyzeDuplicates
    \/ AnalyzePhotos
    \/ CalculateResults
    \/ Tick

SpecScanClock == ClockInit /\ [][ClockNext]_vars

\* C19: the scan honours the configured timeout: a report returned after
\* more than scan_timeout seconds carries a timeout entry in its errors.
C19_TimeoutHonoured ==
    (ReportReturned /\ elapsed > ScanTimeout) =>
        TimeoutEntry \in Range(scan_results.errors)


-----------------------------------------------------------------------------
(* The three calls of PurrifyEngine (src/src/purrify/core/engine.py), each  *)
(* from its first statement to its return.  SpecApi runs them on one        *)
(* engine; a call may meet a failing sub-step.                              *)

\* dict.get(key, default)
DictGet(dict, key, default) == IF key \in DOMAIN dict THEN dict[key] ELSE default

\* the sum of cats[c] over the categories c of S
RECURSIVE SumCounts(_, _)
SumCounts(cats, S) ==
    IF S = {} THEN 0
    ELSE LET c == CHOOSE x \in S : TRUE
         IN cats[c] + SumCounts(cats, S \ {c})

\* the lists of the scanner after the passes that only append to scanned_files
AfterPasses(c, d, o, flt) ==
    [scanned_files    |-> PassFound(c, d, "system_caches", flt)
                          \o PassFound(c, d, "user_caches", flt)
                          \o PassFound(c, d, "application_caches", flt)
                          \o PassFound(c, d, "browser_caches", flt)
                          \o PassFound(c, d, "logs", flt)
                          \o PassFound(c, d, "temp_files", flt)
                          \o (IF o.include_duplicates /\ ~ o.quick_mode
                              THEN ScanForDuplicates(c, d) ELSE <<>>)
                          \o (IF o.include_photos /\ ~ o.quick_mode
                              THEN ScanPhotos(c, d) ELSE <<>>),
     duplicate_groups |-> <<>>,
     photo_analysis   |-> <<>>,
     large_files      |-> <<>>,
     old_files        |-> <<>>]

\* ... after _scan_large_files, when it was asked for
AfterLarge(st, found) ==
    [st EXCEPT !.scanned_files = @ \o found,
               !.large_files = [k \in DOMAIN found |-> Len(st.scanned_files) + k]]

\* ... after _scan_old_files, which every scan but a quick one runs
AfterOld(st, found) ==
    [st EXCEPT !.scanned_files = @ \o found,
               !.old_files = [k \in DOMAIN found |-> Len(st.scanned_files) + k]]

\* ... after _analyze_duplicates has grouped the hashed records
AfterGrouping(hashed, groups) ==
    [scanned_files |-> MarkDuplicates(hashed, groups), duplicate_groups |-> groups]

AfterHashing(hashed) ==
    CHOOSE r \in {AfterGrouping(hashed, groups) :
                     groups \in {DuplicateGroupsOf(hashed)}} : TRUE

AfterDuplicates(st) ==
    CHOOSE r \in {[st EXCEPT !.scanned_files = done.scanned_files,
                             !.duplicate_groups = done.duplicate_groups] :
                     done \in {AfterHashing(hashed) :
                                  hashed \in {WithHashes(st.scanned_files)}}} : TRUE

\* ... after _analyze_photos
AfterPhotos(st) ==
    [st EXCEPT !.photo_analysis = AnalyzePhotosOf(st.scanned_files)]

\* the dictionary scan_system returns, with the lists it was computed from
Returned(c, st) ==
    [config           |-> c,
     scanned_files    |-> st.scanned_files,
     scan_errors      |-> <<>>,
     duplicate_groups |-> st.duplicate_groups,
     photo_analysis   |-> st.photo_analysis,
     large_files      |-> st.large_files,
     old_files        |-> st.old_files,
     results          |-> CalculateEnhancedScanResults(st.scanned_files,
                              st.duplicate_groups, st.photo_analysis,
                              st.large_files, st.old_files, <<>>)]

\* SystemScanner.scan_system as one step: the lists of the scanner and the
\* dictionary it returns, the passes run in the order of scan_tasks (each
\* stage is applied to the value of the stage before it)
ScannerScanSystem(cfg, d, o, flt) ==
    LET c == [cfg EXCEPT !.quick_mode = o.quick_mode]
        Large(st) == AfterLarge(st, IF o.include_large_files
                                    THEN ScanLargeFiles(c, d) ELSE <<>>)
        Old(st)   == AfterOld(st, IF ~ o.quick_mode
                                  THEN ScanOldFiles(c, d) ELSE <<>>)
        Dup(st)   == IF o.include_duplicates /\ ~ o.quick_mode
                     THEN AfterDuplicates(st) ELSE st
        Pho(st)   == IF o.include_photos /\ ~ o.quick_mode
                     THEN AfterPhotos(st) ELSE st
        Ret(st)   == Returned(c, st)
    IN CHOOSE r \in
           {Ret(s5) : s5 \in
           {Pho(s4) : s4 \in
           {Dup(s3) : s3 \in
           {Old(s2) : s2 \in
           {Large(s1) : s1 \in {AfterPasses(c, d, o, flt)}}}}}} : TRUE

\* SystemScanner.scan_system when a step inside its try raises at once:
\* the lists are cleared, the message is kept, _create_error_result returned
ScannerFailure(cfg, o, error) ==
    [config           |-> [cfg EXCEPT !.quick_mode = o.quick_mode],
     scanned_files    |-> <<>>,
     scan_errors      |-> <<error>>,
     duplicate_groups |-> <<>>,
     photo_analysis   |-> <<>>,
     large_files      |-> <<>>,
     old_files        |-> <<>>,
     results          |-> [total_files_scanned     |-> 0,
                           cache_files_found       |-> 0,
                           temp_files_found        |-> 0,
                           log_files_found         |-> 0,
                           large_files_found       |-> 0,
                           potential_space_savings |-> 0,
                           scan_errors             |-> <<error>>,
                           file_details            |-> <<>>]]

\* the dataclass ScanResult (scan_duration and file_details left out)
ScanResult(total, cache, temp, log, large, savings, errors) ==
    [total_files_scanned     |-> total,
     cache_files_found       |-> cache,
     temp_files_found        |-> temp,
     log_files_found         |-> log,
     large_files_found       |-> large,
     potential_space_savings |-> savings,
     scan_errors             |-> errors]

\* PurrifyEngine._create_scan_result_from_data
CreateScanResultFromData(scan_data) ==
    LET cats == DictGet(scan_data, "categories", <<>>) IN
    ScanResult(DictGet(scan_data, "total_files", 0),
               SumCounts(cats, {c \in DOMAIN cats : IsCacheCategory(c)}),
               DictGet(cats, "temp", 0),
               DictGet(cats, "log", 0),
               DictGet(scan_data, "large_files", 0),
               DictGet(scan_data, "potential_savings", 0),
               DictGet(scan_data, "errors", <<>>))

\* PurrifyEngine._create_error_scan_result
CreateErrorScanResult(error) == ScanResult(0, 0, 0, 0, 0, 0, <<error>>)

\* _add_to_operation_history('scan', result)
ScanHistoryEntry(result) ==
    [operation |-> "scan", success |-> Len(result.scan_errors) = 0]

\* the dataclass OptimizationResult (optimization_duration left out)
OptimizationResult(applied, improvement, errors) ==
    [optimizations_applied   |-> applied,
     performance_improvement |-> improvement,
     optimization_errors     |-> errors,
     startup_items_optimized |-> 0,
     memory_optimized        |-> FALSE,
     disk_optimized          |-> FALSE]

\* PerformanceOptimizer.optimize_system: config.platform is a str, so
\* `self.config.platform.get(...)` raises inside its try on every call
PerformanceOptimizerOptimizeSystem(o, safe_mode) ==
    OptimizationResult(0, 0, <<"'str' object has no attribute 'get'">>)

\* PurrifyEngine._create_error_optimization_result
CreateErrorOptimizationResult(error) == OptimizationResult(0, 0, <<error>>)

\* _add_to_operation_history('optimize', result): the result has no
\* optimize_errors attribute, so getattr yields [] and success is True
OptimizeHistoryEntry(result) == [operation |-> "optimize", success |-> TRUE]

\* the keys PerformanceOptimizer.optimize_system reads
OptimizationKeys == {"startup", "memory", "disk"}

OptimizationOptions == [OptimizationKeys -> {"absent", "true"}]

\* `not optimization_options`
IsEmptyOptimization(o) == \A k \in OptimizationKeys : o[k] = "absent"

\* validation without the check of the two modes
ScanParametersUnchecked(quick_mode, detailed_mode) == TRUE

\* `if quick_mode and detailed_mode: raise ValueError`
ScanParametersValid(quick_mode, detailed_mode) == ~ (quick_mode /\ detailed_mode)

\* a try block without its `except Exception`: the exception leaves the call
TryWithoutExcept(raised_in_try, value, error_result) ==
    IF raised_in_try THEN [outcome |-> "raised", result |-> NoResult]
    ELSE [outcome |-> "returned", result |-> value]

\* `try: ... return value  except Exception as e: return error_result`
TryExcept(raised_in_try, value, error_result) ==
    [outcome |-> "returned",
     result  |-> IF raised_in_try THEN error_result ELSE value]

\* the engine's results and history, and what the calls can do to the disk
Tracking ==
    [last_scan_result         |-> last_scan_result,
     last_clean_result        |-> last_clean_result,
     last_optimization_result |-> last_optimization_result,
     operation_history        |-> operation_history,
     backup_root              |-> backup_root,
     clean_disk               |-> clean_disk]

TrackingAfter ==
    [last_scan_result         |-> last_scan_result',
     last_clean_result        |-> last_clean_result',
     last_optimization_result |-> last_optimization_result',
     operation_history        |-> operation_history',
     backup_root              |-> backup_root',
     clean_disk               |-> clean_disk']


\* the sub-step of scan_system that raises: none, a step inside the try of
\* SystemScanner.scan_system, the AI analysis, or a step of the engine itself
ScanFailures == {"none", "scanner", "ai", "engine"}

\* the clean_options of the calls: empty, asking for the caches, declining them
ApiCleanOptions ==
    {o \in CleanOptions : \A k \in CleanKeys \ {"caches"} : o[k] = "absent"}

\* the scans of the calls: a quick one and a full one with duplicate analysis
ApiScanOptions ==
    {o \in ScanOptions : /\ o.include_duplicates = ~ o.quick_mode
                         /\ ~ o.include_photos
                         /\ ~ o.include_large_files}

\* a listing failure in the temp directory
TempFault == [key |-> "temp_files", root |-> 1, after |-> 0]

\* an empty disk, and one with a file in each of three cache and temp roots
ApiDisks == {<<>>, <<7, 8, 11>>}

ApiInit ==
    /\ fs \in ApiDisks
    /\ fault \in {NoFault, TempFault}
    /\ config = MacConfig
    /\ scan_opts = NoOptions
    /\ pc = "idle"
    /\ scanned_files = <<>>
    /\ scan_errors = <<>>
    /\ duplicate_groups = <<>>
    /\ photo_analysis = <<>>
    /\ large_files = <<>>
    /\ old_files = <<>>
    /\ scan_results = None
    /\ raised = <<>> /\ elapsed = 0
    /\ pol = NoEvaluation
    /\ disk = <<>> /\ del = NoCall /\ backed = {}
    /\ backup_root = FALSE
    /\ clean_disk = {}
    /\ last_clean_result = NoResult
    /\ operation_history = <<>>
    /\ clean_call = NoCleanCall
    /\ last_scan_result = NoResult
    /\ last_optimization_result = NoResult
    /\ api_call = NoApiCall
    /\ held = <<>> /\ call_limit = MaxCalls
    /\ ready = <<>> /\ calls = <<>>

\* the list object behind the scan_errors attribute of a ScanResult the
\* engine returns: the dictionary of a completed scanner run carries
\* "errors": self.scan_errors, the scanner's own list, and
\* _create_scan_result_from_data stores what scan_data.get("errors", [])
\* yields; every other result gets a list of its own
ErrorsListOf(thrown, failure) ==
    IF ~ thrown /\ failure # "scanner" THEN "scanner.scan_errors" ELSE "own"

\* a ScanResult object in the hands of a caller: its fields as they were at
\* the return, and the list object behind scan_errors
HeldResult(result, errors_list) == [at_return |-> result, errors_list |-> errors_list]

\* the last n of the objects s
LastOf(s, n) == IF Len(s) > n THEN SubSeq(s, Len(s) - n + 1, Len(s)) ELSE s

\* PurrifyEngine.scan_system(quick_mode, detailed_mode, include_*); the
\* scanner is reached only by a call that passed the validation
EngineScanSystem ==
    /\ \E o \in ApiScanOptions :
       \E detailed_mode \in BOOLEAN, failure \in ScanFailures :
       /\ (o.quick_mode /\ detailed_mode) => failure = "none"
       /\ ~ (o.quick_mode /\ detailed_mode) => Len(operation_history) < call_limit
       /\ \E run \in
                  {IF ~ ScanParametersValid(o.quick_mode, detailed_mode)
                      \/ failure = "scanner"
                   THEN ScannerFailure(config, o, "scan failed")
                   ELSE ScannerScanSystem(config, fs, o, fault)} :
          \E value \in {CreateScanResultFromData(run.results)} :
          LET valid  == ScanParametersValid(o.quick_mode, detailed_mode)
              thrown == ~ valid \/ failure = "engine"
              error  == CreateErrorScanResult(
                            IF ~ valid
                            THEN "Cannot enable both quick_mode and detailed_mode"
                            ELSE "engine step failed")
              ret    == TryExcept(thrown, value, error)
          IN /\ IF valid
                THEN /\ config' = run.config
                     /\ scan_opts' = o
                     /\ scanned_files' = run.scanned_files
                     /\ scan_errors' = run.scan_errors
                     /\ duplicate_groups' = run.duplicate_groups
                     /\ photo_analysis' = run.photo_analysis
                     /\ large_files' = run.large_files
                     /\ old_files' = run.old_files
                     /\ pc' = "done"
                ELSE UNCHANGED <<config, scan_opts, scanned_files, scan_errors,
                                 duplicate_groups, photo_analysis, large_files,
                                 old_files, pc>>
             /\ IF thrown
                THEN UNCHANGED <<last_scan_result, operation_history>>
                ELSE /\ last_scan_result' = value
                     /\ operation_history' =
                            Append(operation_history, ScanHistoryEntry(value))
             /\ held' = LastOf(Append(held, HeldResult(ret.result,
                                                       ErrorsListOf(thrown, failure))),
                               call_limit)
             /\ UNCHANGED <<backup_root, clean_disk, last_clean_result,
                            last_optimization_result, clean_call, call_limit>>
             /\ api_call' = [op              |-> "scan",
                             quick_mode      |-> o.quick_mode,
                             detailed_mode   |-> detailed_mode,
                             failure         |-> failure,
                             scanner_invoked |-> valid,
                             traversed       |-> (pc' # pc \/ scan_opts' # scan_opts
                                                  \/ scanned_files' # scanned_files),
                             config_before   |-> config,
                             config_after    |-> config',
                             outcome         |-> ret.outcome,
                             result          |-> ret.result,
                             before          |-> Tracking,
                             after           |-> TrackingAfter]
    /\ UNCHANGED <<fs, scan_results, raised, fault, elapsed>>
    /\ UNCHANGED <<polVars, delVars, ovlVars>>

\* PurrifyEngine.clean_system(clean_options, safe_mode, create_backup)
EngineCleanSystem ==
    /\ UNCHANGED <<last_scan_result, last_optimization_result, held, call_limit>>
    /\ \E o \in ApiCleanOptions, safe_mode \in BOOLEAN, create_backup \in BOOLEAN,
          mkdir_ok \in BOOLEAN :
          /\ (\E k \in CleanKeys : o[k] # "absent") =>
                 Len(operation_history) < call_limit
          /\ ~ NeedsBackup(create_backup, safe_mode) => mkdir_ok
          /\ CleanSystemCall(o, safe_mode, create_backup, mkdir_ok)
          /\ LET ret == TryExcept(IsEmptyOptions(o), clean_call'.result,
                                  clean_call'.result)
             IN api_call' = [op            |-> "clean",
                             clean_options |-> o,
                             failure       |-> IF NeedsBackup(create_backup, safe_mode)
                                                  /\ ~ mkdir_ok
                                               THEN "backup" ELSE "none",
                             traversed     |-> FALSE,
                             outcome       |-> ret.outcome,
                             result        |-> ret.result,
                             before        |-> Tracking,
                             after         |-> TrackingAfter]
    /\ UNCHANGED <<scanVars, polVars, delVars, ovlVars>>

\* PurrifyEngine.optimize_system(optimization_options, safe_mode)
EngineOptimizeSystem ==
    /\ \E o \in OptimizationOptions, safe_mode \in BOOLEAN :
          LET valid == ~ IsEmptyOptimization(o)
              value == PerformanceOptimizerOptimizeSystem(o, safe_mode)
              ret   == TryExcept(~ valid, value,
                           CreateErrorOptimizationResult(
                               "Optimization options cannot be empty"))
          IN /\ (\E k \in OptimizationKeys : o[k] # "absent") =>
                    Len(operation_history) < call_limit
             /\ IF valid
                THEN /\ last_optimization_result' = value
                     /\ operation_history' =
                            Append(operation_history, OptimizeHistoryEntry(value))
                ELSE UNCHANGED <<last_optimization_result, operation_history>>
             /\ UNCHANGED <<backup_root, clean_disk, last_clean_result,
                            last_scan_result, clean_call, held, call_limit>>
             /\ api_call' = [op                   |-> "optimize",
                             no_options           |-> \A k \in OptimizationKeys :
                                                          o[k] = "absent",
                             failure              |-> "none",
                             traversed            |-> FALSE,
                             outcome              |-> ret.outcome,
                             result               |-> ret.result,
                             before               |-> Tracking,
                             after                |-> TrackingAfter]
    /\ UNCHANGED <<scanVars, polVars, delVars, ovlVars>>

ApiNext ==
    \/ EngineScanSystem
    \/ EngineCleanSystem
    \/ EngineOptimizeSystem

SpecApi == ApiInit /\ [][ApiNext]_vars


\* C13: a scan_system call with quick_mode = true and detailed_mode = true is
\* rejected with the validation error before any traversal: the scanner is
\* not invoked, its lists are untouched and the result reports no file.
C13_BothModesRejected ==
    (api_call.op = "scan" /\ api_call.quick_mode /\ api_call.detailed_mode) =>
        /\ ~ api_call.scanner_invoked
        /\ ~ api_call.traversed
        /\ api_call.result.scan_errors =
               <<"Cannot enable both quick_mode and detailed_mode">>
        /\ api_call.result.total_files_scanned = 0

\* such a call on a disk with files a scan reports
C13_Witness ==
    /\ api_call.op = "scan"
    /\ api_call.quick_mode /\ api_call.detailed_mode
    /\ fs # <<>>
    /\ scanned_files = <<>>

\* the last call had arguments that fail the validation of its operation
FailsValidation ==
    CASE api_call.op = "scan" ->
             api_call.quick_mode /\ api_call.detailed_mode
      [] api_call.op = "clean" ->
             \A k \in CleanKeys : api_call.clean_options[k] = "absent"
      [] api_call.op = "optimize" ->
             api_call.no_options
      [] OTHER -> FALSE

\* C15: a scan_system, clean_system or optimize_system call that fails the
\* validation of its parameters executes nothing: last_scan_result,
\* last_clean_result, last_optimization_result and operation_history are as
\* before the call, no backup directory was created, no file deleted and no
\* traversal made.
C15_RejectedCallChangesNothing ==
    FailsValidation =>
        /\ api_call.after = api_call.before
        /\ ~ api_call.traversed

\* a clean_system call with empty options that asks for a backup outside safe
\* mode, on an engine that has completed an operation before
C15_Witness ==
    /\ FailsValidation
    /\ api_call.op = "clean"
    /\ clean_call.create_backup /\ ~ clean_call.safe_mode
    /\ api_call.before.operation_history # <<>>

-----------------------------------------------------------------------------
(* Two scan_system calls on one engine, started together in one event loop  *)
(* (asyncio.gather(engine.scan_system(..), engine.scan_system(..))).  Each  *)
(* call runs without waiting up to its gather over scan_tasks,             *)
(* which queues its passes behind whatever is runnable already and          *)
(* suspends the call until the last of them is over.  The passes never      *)
(* wait, so each runs to its end once the loop takes it from the queue.     *)
(* Both calls use the lists and the configuration of the one SystemScanner. *)

Calls == {"A", "B"}

\* the scans of the two calls: quick or not, with or without the large-file
\* pass and the duplicate analysis
OverlapOptions == {o \in ScanOptions : ~ o.include_photos}

\* a photo and a large file in Downloads, a cache file and a temp file
OverlapFiles == {3, 4, 7, 8}

OverlapDisks == {d \in Disks : Range(d) \subseteq OverlapFiles}

\* the coroutines scan_system appends to scan_tasks, in order
UnitsOf(o) ==
    <<"system_caches", "user_caches", "application_caches", "browser_caches",
      "logs", "temp_files">>
    \o (IF o.include_duplicates /\ ~ o.quick_mode THEN <<"duplicates">> ELSE <<>>)
    \o (IF o.include_photos /\ ~ o.quick_mode THEN <<"photos">> ELSE <<>>)
    \o (IF o.include_large_files THEN <<"large_files">> ELSE <<>>)
    \o (IF ~ o.quick_mode THEN <<"old_files">> ELSE <<>>)

\* the records one unit appends to scanned_files
UnitFound(cfg, d, key, flt) ==
    CASE key = "duplicates"  -> ScanForDuplicates(cfg, d)
      [] key = "photos"      -> ScanPhotos(cfg, d)
      [] key = "large_files" -> ScanLargeFiles(cfg, d)
      [] key = "old_files"   -> ScanOldFiles(cfg, d)
      [] OTHER               -> PassFound(cfg, d, key, flt)

\* what identifies a record in a report: the file and the category
RecordKeys(sf) == [i \in DOMAIN sf |-> <<sf[i].file, sf[i].category>>]

NewCall(o) ==
    [opts |-> o, pending |-> 0, own |-> <<>>, returned |-> FALSE,
     report |-> <<>>, total_files |-> 0]

OverlapInit ==
    /\ fs \in OverlapDisks
    /\ config = MacConfig
    /\ scan_opts = NoOptions
    /\ pc = "idle"
    /\ scanned_files = <<>>
    /\ scan_errors = <<>>
    /\ duplicate_groups = <<>>
    /\ photo_analysis = <<>>
    /\ large_files = <<>>
    /\ old_files = <<>>
    /\ scan_results = None
    /\ raised = <<>> /\ fault = NoFault /\ elapsed = 0
    /\ pol = NoEvaluation
    /\ disk = <<>> /\ del = NoCall /\ backed = {}
    /\ backup_root = FALSE
    /\ clean_disk = {}
    /\ last_clean_result = NoResult
    /\ operation_history = <<>>
    /\ clean_call = NoCleanCall
    /\ last_scan_result = NoResult
    /\ last_optimization_result = NoResult
    /\ api_call = NoApiCall
    /\ held = <<>> /\ call_limit = MaxCalls
    /\ ready = <<[call |-> "A", unit |-> "start"], [call |-> "B", unit |-> "start"]>>
    /\ calls \in {[c \in Calls |-> NewCall(f[c])] : f \in [Calls -> OverlapOptions]}

\* the loop runs a call from its first statement to its gather: the lists
\* of the scanner are cleared, the scan mode is stored, the units are queued
OverlapStart ==
    /\ ready # <<>>
    /\ Head(ready).unit = "start"
    /\ LET c     == Head(ready).call
           units == UnitsOf(calls[c].opts)
       IN /\ scanned_files' = <<>>
          /\ scan_errors' = <<>>
          /\ duplicate_groups' = <<>>
          /\ photo_analysis' = <<>>
          /\ large_files' = <<>>
          /\ old_files' = <<>>
          /\ config' = [config EXCEPT !.quick_mode = calls[c].opts.quick_mode]
          /\ ready' = Tail(ready) \o [k \in DOMAIN units |->
                                         [call |-> c, unit |-> units[k]]]
          /\ calls' = [calls EXCEPT ![c].pending = Len(units)]
    /\ UNCHANGED <<fs, scan_opts, pc, scan_results, raised, fault, elapsed>>
    /\ UNCHANGED <<polVars, delVars, engVars>>

\* the loop runs one unit to its end; the end of a call's last unit makes
\* the call runnable again
OverlapUnit ==
    /\ ready # <<>>
    /\ Head(ready).unit \notin {"start", "resume"}
    /\ LET c   == Head(ready).call
           key == Head(ready).unit
       IN \E found \in {UnitFound(config, fs, key, fault)} :
          /\ scanned_files' = scanned_files \o found
          /\ large_files' = IF key = "large_files"
                            THEN large_files \o [k \in DOMAIN found |->
                                                    Len(scanned_files) + k]
                            ELSE large_files
          /\ old_files' = IF key = "old_files"
                          THEN old_files \o [k \in DOMAIN found |->
                                                Len(scanned_files) + k]
                          ELSE old_files
          /\ calls' = [calls EXCEPT ![c].pending = @ - 1,
                                    ![c].own = @ \o RecordKeys(found)]
          /\ ready' = Tail(ready) \o
                      (IF calls[c].pending = 1
                       THEN <<[call |-> c, unit |-> "resume"]>> ELSE <<>>)
    /\ UNCHANGED <<fs, config, scan_opts, pc, scan_errors, duplicate_groups,
                   photo_analysis, scan_results, raised, fault, elapsed>>
    /\ UNCHANGED <<polVars, delVars, engVars>>

\* the loop resumes a call after its gather: the analyses it asked for, then
\* the report computed from the lists of the scanner
OverlapResume ==
    /\ ready # <<>>
    /\ Head(ready).unit = "resume"
    /\ LET c  == Head(ready).call
           o  == calls[c].opts
           st == [scanned_files    |-> scanned_files,
                  duplicate_groups |-> duplicate_groups,
                  photo_analysis   |-> photo_analysis,
                  large_files      |-> large_files,
                  old_files        |-> old_files]
           Dup(x) == IF o.include_duplicates /\ ~ o.quick_mode
                     THEN [x EXCEPT !.scanned_files =
                                        AfterDuplicates(x).scanned_files,
                                    !.duplicate_groups =
                                        @ \o AfterDuplicates(x).duplicate_groups]
                     ELSE x
           Pho(x) == IF o.include_photos /\ ~ o.quick_mode
                     THEN [x EXCEPT !.photo_analysis =
                                        @ \o AnalyzePhotosOf(x.scanned_files)]
                     ELSE x
       IN \E after \in {Pho(y) : y \in {Dup(st)}} :
          /\ scanned_files' = after.scanned_files
          /\ duplicate_groups' = after.duplicate_groups
          /\ photo_analysis' = after.photo_analysis
          /\ scan_results' = Returned(config, after).results
          /\ calls' = [calls EXCEPT
                          ![c].returned = TRUE,
                          ![c].report = RecordKeys(after.scanned_files),
                          ![c].total_files = Len(after.scanned_files)]
          /\ ready' = Tail(ready)
    /\ UNCHANGED <<fs, config, scan_opts, pc, scan_errors, large_files,
                   old_files, raised, fault, elapsed>>
    /\ UNCHANGED <<polVars, delVars, engVars>>

OverlapNext ==
    \/ OverlapStart
    \/ OverlapUnit
    \/ OverlapResume

SpecOverlap == OverlapInit /\ [][OverlapNext]_vars

\* C20: the report a scan_system call returns holds the records its own
\* units found and no others, also when two calls on one engine overlap.
C20_OwnRecordsOnly ==
    \A c \in DOMAIN calls :
        calls[c].returned => calls[c].report = calls[c].own

-----------------------------------------------------------------------------
(* The ScanResult objects the engine has handed out.  SpecResults follows   *)
(* one engine on a disk with files for one completed operation more than    *)
(* SpecApi, so that a second scan can follow a first; the callers keep the  *)
(* objects they were given.                                                 *)

ResultsInit ==
    /\ fs = <<7, 8, 11>>
    /\ fault = NoFault
    /\ config = MacConfig
    /\ scan_opts = NoOptions
    /\ pc = "idle"
    /\ scanned_files = <<>>
    /\ scan_errors = <<>>
    /\ duplicate_groups = <<>>
    /\ photo_analysis = <<>>
    /\ large_files = <<>>
    /\ old_files = <<>>
    /\ scan_results = None
    /\ raised = <<>> /\ elapsed = 0
    /\ pol = NoEvaluation
    /\ disk = <<>> /\ del = NoCall /\ backed = {}
    /\ backup_root = FALSE
    /\ clean_disk = {}
    /\ last_clean_result = NoResult
    /\ operation_history = <<>>
    /\ clean_call = NoCleanCall
    /\ last_scan_result = NoResult
    /\ last_optimization_result = NoResult
    /\ api_call = NoApiCall
    /\ held = <<>> /\ call_limit = MaxCalls + 1
    /\ ready = <<>> /\ calls = <<>>

SpecResults == ResultsInit /\ [][ApiNext]_vars

\* what a caller reads from the object h now: scan_errors is read through
\* the list object, the other fields are values of the object itself
NowOf(h) ==
    [h.at_return EXCEPT !.scan_errors =
        IF h.errors_list = "scanner.scan_errors" THEN scan_errors ELSE @]

\* C21: a ScanResult is immutable once returned: no later scan_system,
\* clean_system or optimize_system call changes a field of a ScanResult
\* returned before (counts, potential savings, scan_errors).
C21_ReturnedResultImmutable ==
    \A i \in DOMAIN held : NowOf(held[i]) = held[i].at_return

\* C22: the engine retains exactly the most recent scan report:
\* last_scan_result is the ScanResult the most recent scan_system call
\* returned, and it is None only if no scan_system call was made.
C22_LatestReportRetained ==
    IF held = <<>>
    THEN last_scan_result = NoResult
    ELSE last_scan_result = held[Len(held)].at_return

-----------------------------------------------------------------------------
(* The figures of the scan report against the records they are computed     *)
(* from (SpecScan).                                                         *)

\* the bytes of the records of the cache, temp and log categories that are
\* marked safe_to_delete
SafeCleanupBytes(sf) ==
    SumSeq([i \in DOMAIN sf |->
               IF /\ \/ IsCacheCategory(sf[i].category)
                     \/ sf[i].category \in {"temp", "log"}
                  /\ sf[i].safe_to_delete
               THEN sf[i].size ELSE 0])

\* the compression estimate of the photo-category records, by the ratio table
PhotoRecordSavings(sf) ==
    SumSeq([i \in DOMAIN sf |->
               IF sf[i].category = "photo"
               THEN PhotoSavings(sf[i].size, CompressionRatio(PathOf(sf[i])))
               ELSE 0])

\* C23: the potential savings of a scan report is the sum of (a) the sizes of
\* the records in cache, temp and log categories that are marked
\* safe_to_delete, (b) the potential_savings of all duplicate groups and (c)
\* the estimated compression savings of the photo-category records; records
\* not marked safe contribute nothing to (a).
C23_PotentialSavingsSum ==
    ReportReturned =>
        scan_results.potential_savings =
              SafeCleanupBytes(scanned_files)
            + SumSeq([g \in DOMAIN duplicate_groups |->
                         duplicate_groups[g].potential_savings])
            + PhotoRecordSavings(scanned_files)

\* the files of the records the list `tagged` (indices of scanned_files) names
FilesTagged(tagged) == {scanned_files[tagged[k]].file : k \in DOMAIN tagged}

\* C24: the large-file and old-file passes are read-only annotations over the
\* scanned record set: every scanned record with size above 10 MiB is in the
\* large-file list, every record modified more than 90 days ago is in the
\* old-file list (here: its file has a record in the list), and a record
\* tagged by these passes keeps its original category instead of taking the
\* tag for its category.
C24_LargeAndOldAnnotate ==
    ReportReturned =>
        /\ \A i \in DOMAIN scanned_files :
              scanned_files[i].size > LargeFileSize =>
                  scanned_files[i].file \in FilesTagged(large_files)
        /\ \A i \in DOMAIN scanned_files :
              scanned_files[i].modified > OldFileAgeHours =>
                  scanned_files[i].file \in FilesTagged(old_files)
        /\ \A k \in DOMAIN large_files :
              scanned_files[large_files[k]].category # "large_file"
        /\ \A k \in DOMAIN old_files :
              scanned_files[old_files[k]].category # "old_file"

\* the disks that hold the files of d, in every order a listing can show them
SameFiles(d) == {d2 \in Disks : Range(d2) = Range(d)}

\* the files duplicate analysis retains: the first member of each group
RetainedFiles(sf, groups) == {sf[groups[g].files[1]].file : g \in DOMAIN groups}

\* the files duplicate analysis marks for deletion: the members after the first
MarkedFiles(sf, groups) ==
    UNION {{sf[groups[g].files[k]].file : k \in 2..Len(groups[g].files)} :
              g \in DOMAIN groups}

\* C25: the retained member of a DuplicateGroup is chosen from the member
\* files alone: a scan of the same files that discovers them in another
\* traversal order retains the same members and marks the same members for
\* deletion.
C25_RetainedIndependentOfOrder ==
    ReportReturned =>
        \A d2 \in SameFiles(fs) :
            \A other \in {ScannerScanSystem(config, d2, scan_opts, fault)} :
                /\ RetainedFiles(other.scanned_files, other.duplicate_groups)
                       = RetainedFiles(scanned_files, duplicate_groups)
                /\ MarkedFiles(other.scanned_files, other.duplicate_groups)
                       = MarkedFiles(scanned_files, duplicate_groups)

\* C26: backups mirror the original paths under the backup root: two
\* distinct original files are never backed up to the same backup location,
\* so that a later backup never overwrites an earlier one.
C26_BackupsKeptApart ==
    \A x, y \in backed : x.backup = y.backup => x.original = y.original

\* C27: no scan report contains a record for a zero-byte file, whichever pass
\* produced the record (category traversal, duplicate, photo, large-file or
\* old-file pass).  (Every path of the disk is a regular file.)
C27_NoEmptyFileRecorded ==
    ReportReturned =>
        \A i \in DOMAIN scanned_files : scanned_files[i].size > 0

\* C28: a scan_system call leaves no hidden state behind for later calls: the
\* configuration object (config.scanning.quick_mode included) is the same
\* after the call as before it.
C28_ScanLeavesConfigAlone ==
    api_call.op = "scan" => api_call.config_after = api_call.config_before

\* the directory PurrifyEngine._create_backup asks the cleaner to create
BackupsPath == "backups"

\* the call got its backup root: it asked for one and mkdir succeeded
BackupMade ==
    /\ clean_call.cleaner_invoked
    /\ NeedsBackup(clean_call.create_backup, clean_call.safe_mode)
    /\ clean_call.backup_root_creatable

\* C29: after clean_system returns, the result's backup_created is true
\* exactly when a backup root was created for this call, and backup_path is
\* then the path of that directory; when no backup was made (safe mode, no
\* backup requested, or creation failed) backup_created is false and
\* backup_path is absent.
C29_BackupReported ==
    clean_call.called =>
        /\ clean_call.result.backup_created = BackupMade
        /\ clean_call.result.backup_path = IF BackupMade THEN BackupsPath ELSE None

\* the error list of the result the last call returned
ResultErrors ==
    CASE api_call.op = "scan"     -> api_call.result.scan_errors
      [] api_call.op = "clean"    -> api_call.result.clean_errors
      [] api_call.op = "optimize" -> api_call.result.optimization_errors

\* C30: every scan_system, clean_system or optimize_system call that passes
\* validation appends exactly one entry to operation_history (the entries
\* before it stay as they were), and the entry's success flag is true exactly
\* when the call's result has an empty error list.
C30_OneHistoryEntryPerCall ==
    (api_call.op # "none" /\ ~ FailsValidation) =>
        LET was == api_call.before.operation_history
            now == api_call.after.operation_history
        IN /\ Len(now) = Len(was) + 1
           /\ SubSeq(now, 1, Len(was)) = was
           /\ now[Len(now)].operation = api_call.op
           /\ now[Len(now)].success = (ResultErrors = <<>>)

====
